---- MODULE Spec2Model ----
(***************************************************************************)
(* The Ask Rwanda query pipeline (ai-service): the route ask_rwanda, the   *)
(* orchestrator RAGPipeline (process_query / process_query_stream), the    *)
(* safety gate, the chunk store searches and the source selector.          *)
(*                                                                         *)
(* Text is a sequence of words.  Similarity scores are hundredths          *)
(* (0.3 is 30).  Python's None for an optional limit is NoLimit (0, which  *)
(* `limit or default` treats the same way); an absent identifier is NoId.  *)
(***************************************************************************)
EXTENDS Integers, Sequences, FiniteSets, TLC

VARIABLES
    pc,                \* position of the invocation (route + orchestrator)
    req,               \* the request body: query, language, mode, context, stream
    detected_lang,     \* process_query local
    search_query,      \* process_query local
    safety_result,     \* process_query local: result of check_query
    filters,           \* process_query local
    semantic_results,  \* process_query local (the keyword merge appends to it)
    sources,           \* process_query local
    system_prompt,     \* process_query local
    augmented_query,   \* process_query local
    llm_result,        \* process_query local: generate's result / stream state
    response,          \* what process_query returned
    raised,            \* the exception in flight, "none" when there is none
    http,              \* what the route answered (non-streaming)
    out,               \* the events event_stream has yielded (streaming)
    calls,             \* the collaborator calls made so far, in order
    semantic_returned, \* what the semantic search returned, before any merge
    keyword_returned,  \* what the keyword search returned
    audit,             \* the audit log file, one entry per line
    store,             \* the rows of the content_embeddings table
    now,               \* the clock: time.monotonic() counted from the invocation's
                       \* start, and NOW() of the store
    arg,               \* the arguments of a function applied on its own
    ret,               \* its result
    passed,            \* the text handed to each collaborator by the invocation
    frames,            \* concurrent invocations: the local variables of each
    _detector          \* the module global of language_service.py

vars == << pc, req, detected_lang, search_query, safety_result, filters,
           semantic_results, sources, system_prompt, augmented_query,
           llm_result, response, raised, http, out, calls, semantic_returned,
           keyword_returned, audit, store, now, arg, ret, passed, frames,
           _detector >>

request_vars == << pc, req, detected_lang, search_query, safety_result, filters,
           semantic_results, sources, system_prompt, augmented_query,
           llm_result, response, raised, http, out, calls, semantic_returned,
           keyword_returned, audit, passed, frames, _detector >>

pipeline_vars == << request_vars, now >>

----------------------------------------------------------------------------
\* Bounds of the model.

\* the longest generation, in fragments
MaxFragments == 2
\* the longest result list handed to a function on its own
MaxResults == 3
\* the largest explicit limit handed to a function on its own
MaxLimit == 2

----------------------------------------------------------------------------
\* Program constants.

VECTOR_SEARCH_LIMIT == 20
VECTOR_RERANK_LIMIT == 8
VECTOR_SIMILARITY_THRESHOLD == 30
SAFETY_MAX_QUERY_LENGTH == 2000
QUERY_MAX_LENGTH == 2000
FALLBACK_THRESHOLD == 50
KEYWORD_LIMIT == 10
TRGM_THRESHOLD == 30
PREVIEW_LENGTH == 500
ENABLE_AUDIT_LOG == TRUE

NoLimit == 0
NoId == ""
None == "None"
NoText == <<None>>
NoValue == [none |-> TRUE]

Min(a, b) == IF a <= b THEN a ELSE b

----------------------------------------------------------------------------
\* Text: sequences of words.

Lower(w) ==
    CASE w = "Double" -> "double"
      [] w = "Genocide" -> "genocide"
      [] w = "Rwanda" -> "rwanda"
      [] w = "Memorial" -> "memorial"
      [] OTHER -> w

LowerText(t) == [i \in 1..Len(t) |-> Lower(t[i])]

\* s occurs in t as a contiguous run of words (Python's `s in t`, re.search)
Contains(t, s) ==
    \E i \in 0..(Len(t) - Len(s)) : \A j \in 1..Len(s) : t[i + j] = s[j]

ContainsAny(t, S) == \E s \in S : Contains(t, s)

RECURSIVE Flatten(_)
Flatten(ss) == IF ss = <<>> THEN <<>> ELSE Head(ss) \o Flatten(Tail(ss))

Take(s, n) == SubSeq(s, 1, Min(n, Len(s)))

----------------------------------------------------------------------------
\* Safety service.

\* the word sequences the denial regexes accept (re.IGNORECASE: matched on
\* the lowered text); the alternatives of the first, third and fifth pattern
GENOCIDE_DENIAL_PATTERNS ==
    { <<"genocide", "did", "not", "happen">>, <<"genocide", "never", "happen">>,
      <<"tutsi", "provoked">>, <<"double", "genocide">> }

VIOLENCE_PROMOTION_PATTERNS ==
    { <<"how", "to", "kill">>, <<"how", "to", "harm">>, <<"ethnic", "cleansing">> }

SAFE_RESPONSES ==
    [ genocide_denial |-> <<"SAFE_RESPONSES[genocide_denial]">>,
      violence_promotion |-> <<"SAFE_RESPONSES[violence_promotion]">>,
      inappropriate_content |-> <<"SAFE_RESPONSES[inappropriate_content]">> ]

TOO_LONG_RESPONSE == <<"Please keep your question shorter.">>

\* a faulty variant of CheckQuery: the violence group is consulted first
CheckQuery_ViolenceFirst(q) ==
    IF q.len > SAFETY_MAX_QUERY_LENGTH
    THEN [blocked |-> TRUE, reason |-> "query_too_long",
          safe_response |-> TOO_LONG_RESPONSE]
    ELSE IF ContainsAny(LowerText(q.text), VIOLENCE_PROMOTION_PATTERNS)
    THEN [blocked |-> TRUE, reason |-> "violence_promotion",
          safe_response |-> SAFE_RESPONSES.violence_promotion]
    ELSE IF ContainsAny(LowerText(q.text), GENOCIDE_DENIAL_PATTERNS)
    THEN [blocked |-> TRUE, reason |-> "genocide_denial",
          safe_response |-> SAFE_RESPONSES.genocide_denial]
    ELSE [blocked |-> FALSE, reason |-> None, safe_response |-> NoText]

\* check_query's decision (its audit write is LogFlagged, in the actions)
CheckQuery(q) ==
    IF q.len > SAFETY_MAX_QUERY_LENGTH
    THEN [blocked |-> TRUE, reason |-> "query_too_long",
          safe_response |-> TOO_LONG_RESPONSE]
    ELSE IF ContainsAny(LowerText(q.text), GENOCIDE_DENIAL_PATTERNS)
    THEN [blocked |-> TRUE, reason |-> "genocide_denial",
          safe_response |-> SAFE_RESPONSES.genocide_denial]
    ELSE IF ContainsAny(LowerText(q.text), VIOLENCE_PROMOTION_PATTERNS)
    THEN [blocked |-> TRUE, reason |-> "violence_promotion",
          safe_response |-> SAFE_RESPONSES.violence_promotion]
    ELSE [blocked |-> FALSE, reason |-> None, safe_response |-> NoText]

denial_signals ==
    { <<"genocide", "did", "not", "happen">>, <<"genocide", "is", "a", "hoax">>,
      <<"double", "genocide">>, <<"tutsi", "provoked">>,
      <<"both", "sides", "were", "equally">> }

violence_signals ==
    { <<"how", "to", "make", "a", "weapon">>, <<"how", "to", "harm">>,
      <<"instructions", "for", "violence">> }

\* check_output's decision
CheckOutput(text) ==
    IF ContainsAny(LowerText(text), denial_signals)
    THEN [flagged |-> TRUE, reason |-> "output_genocide_denial",
          filtered_response |-> SAFE_RESPONSES.genocide_denial]
    ELSE IF ContainsAny(LowerText(text), violence_signals)
    THEN [flagged |-> TRUE, reason |-> "output_violence",
          filtered_response |-> SAFE_RESPONSES.violence_promotion]
    ELSE [flagged |-> FALSE, reason |-> None, filtered_response |-> NoText]

\* the entry _log_flagged writes
AuditEntry(content, len, reason, is_output, ts) ==
    [ timestamp |-> ts,
      type |-> IF is_output THEN "output_flagged" ELSE "query_blocked",
      reason |-> reason,
      content_preview |-> [text |-> content, len |-> Min(len, PREVIEW_LENGTH)] ]

\* the audit logs _log_flagged can leave: the entry appended, or, when the
\* write fails (the exception is caught and logged), the log as it was
LogFlagged(log, content, len, reason, is_output, ts) ==
    IF ~ENABLE_AUDIT_LOG THEN {log}
    ELSE {Append(log, AuditEntry(content, len, reason, is_output, ts)), log}

\* whether check_query logs: the length check returns before any logging
QueryLogs(log, q, ts) ==
    LET d == CheckQuery(q) IN
    IF d.blocked /\ d.reason # "query_too_long"
    THEN LogFlagged(log, q.text, q.len, d.reason, FALSE, ts)
    ELSE {log}

Tiers == {"standard", "sensitive", "highly_sensitive"}

sensitivity_levels(t) ==
    CASE t = "standard" -> 1 [] t = "sensitive" -> 2 [] t = "highly_sensitive" -> 3

\* a faulty variant of get_sensitivity_for_mode: the ceilings of kid_friendly
\* and standard are exchanged
get_sensitivity_for_mode_Swapped(mode) ==
    CASE mode = "kid_friendly" -> "sensitive"
      [] mode = "standard" -> "standard"
      [] mode = "personal_voices" -> "highly_sensitive"
      [] OTHER -> "standard"

get_sensitivity_for_mode(mode) ==
    CASE mode = "kid_friendly" -> "standard"
      [] mode = "standard" -> "sensitive"
      [] mode = "personal_voices" -> "highly_sensitive"
      [] OTHER -> "standard"

----------------------------------------------------------------------------
\* The chunk store and its two searches.

\* embed_texts: the vector of a text, a function of the prefixed text
embed_texts(txt) == << "passage:" >> \o txt

\* a row of content_embeddings, with the column defaults of the table
Row(c, s, ty, t, m, txt) ==
    [ chunk_id |-> c, source_id |-> s, source_type |-> ty, language |-> "en",
      sensitivity |-> t, location_id |-> NoId, museum_id |-> m, route_id |-> NoId,
      tags |-> <<>>, text |-> txt, embedding |-> embed_texts(txt),
      created_at |-> 0, updated_at |-> 0 ]

Corpus ==
    { Row("c1", "s1", "story", "standard", "m1", <<"kigali", "memorial">>),
      Row("c2", "s1", "story", "sensitive", NoId, <<"memorial", "history">>),
      Row("c3", "s2", "testimony", "highly_sensitive", "m1", <<"survivor", "account">>) }

ChunkIds == {"c1", "c2", "c3"}

NoFilters ==
    [ sensitivity |-> NoId, location_id |-> NoId, museum_id |-> NoId, route_id |-> NoId ]

\* the tiers `sensitivity = ANY(allowed)` lets through
Allowed(ceiling) ==
    LET max_level == IF ceiling \in Tiers THEN sensitivity_levels(ceiling) ELSE 1
    IN  {t \in Tiers : sensitivity_levels(t) <= max_level}

\* the WHERE clause search builds from the filters
Where(row, f) ==
    /\ f.sensitivity # NoId => row.sensitivity \in Allowed(f.sensitivity)
    /\ f.location_id # NoId => row.location_id = f.location_id
    /\ f.museum_id # NoId => row.museum_id = f.museum_id
    /\ f.route_id # NoId => row.route_id = f.route_id

\* the orders ORDER BY can return S in: score descending, ties in any order
Ranked(S, score) ==
    { s \in [1..Cardinality(S) -> S] :
        /\ \A i, j \in 1..Cardinality(S) : i # j => s[i] # s[j]
        /\ \A i \in 1..(Cardinality(S) - 1) :
              score[s[i].chunk_id] >= score[s[i + 1].chunk_id] }

Result(row, sc) ==
    [ chunk_id |-> row.chunk_id, source_id |-> row.source_id,
      source_type |-> row.source_type, text |-> row.text,
      sensitivity |-> row.sensitivity, similarity_score |-> sc ]

\* a faulty variant of AboveFloor: a score equal to the floor is dropped
AboveFloor_Strict(r) == r.similarity_score > VECTOR_SIMILARITY_THRESHOLD

AboveFloor(r) == r.similarity_score >= VECTOR_SIMILARITY_THRESHOLD

\* EmbeddingService.search: the result lists it can return when the cosine
\* similarity of each chunk to the query is sim[chunk_id]
Search(rows, sim, f, limit) ==
    LET lim == IF limit = NoLimit THEN VECTOR_SEARCH_LIMIT ELSE limit
        matching == {row \in rows : Where(row, f)}
    IN  { SelectSeq([i \in 1..Min(lim, Len(s)) |-> Result(s[i], sim[s[i].chunk_id])],
                    AboveFloor) : s \in Ranked(matching, sim) }

\* EmbeddingService.keyword_search: the rows whose text is trigram-similar to
\* the query (the % operator), best first; no metadata filter is applied
KeywordSearch(rows, trgm, limit) ==
    LET matching == {row \in rows : trgm[row.chunk_id] >= TRGM_THRESHOLD}
    IN  { [i \in 1..Min(limit, Len(s)) |-> Result(s[i], trgm[s[i].chunk_id])] :
            s \in Ranked(matching, trgm) }

----------------------------------------------------------------------------
\* RAGPipeline helpers.

_build_filters(context, mode) ==
    [ sensitivity |-> IF mode = "kid_friendly" THEN "standard"
                      ELSE IF mode = "standard" THEN "sensitive"
                      ELSE "highly_sensitive",
      museum_id |-> context.museum_id,
      route_id |-> context.route_id,
      location_id |-> context.location_id ]

\* a faulty variant of NeedsFallback: only an empty result list falls back
NeedsFallback_EmptyOnly(results) == results = <<>>

\* line 102: the keyword fallback runs
NeedsFallback(results) ==
    results = <<>> \/ results[1].similarity_score < FALLBACK_THRESHOLD

\* a faulty variant of Merge: the keyword results are appended without the
\* seen_ids test
Merge_NoDedup(sem, kw) == sem \o kw

\* lines 108-111: append the keyword results whose chunk is not a semantic one
Merge(sem, kw) ==
    LET seen_ids == {sem[i].chunk_id : i \in 1..Len(sem)}
        NotSeen(kr) == kr.chunk_id \notin seen_ids
    IN  sem \o SelectSeq(kw, NotSeen)

RECURSIVE SelectLoop(_, _, _, _, _)
SelectLoop(results, i, selected, seen_sources, limit) ==
    IF i > Len(results) THEN selected
    ELSE IF results[i].source_id \in seen_sources /\ Len(selected) < limit
    THEN SelectLoop(results, i + 1, selected, seen_sources, limit)
    ELSE LET sel == Append(selected, results[i]) IN
         IF Len(sel) >= limit THEN sel
         ELSE SelectLoop(results, i + 1, sel,
                         seen_sources \cup {results[i].source_id}, limit)

\* a faulty variant of _select_sources: pure top-k, no test of the source
_select_sources_TopK(results, limit) ==
    Take(results, IF limit = NoLimit THEN VECTOR_RERANK_LIMIT ELSE limit)

RECURSIVE SelectLoop_OffByOne(_, _, _, _, _)
SelectLoop_OffByOne(results, i, selected, seen_sources, limit) ==
    IF i > Len(results) THEN selected
    ELSE IF results[i].source_id \in seen_sources /\ Len(selected) < limit
    THEN SelectLoop_OffByOne(results, i + 1, selected, seen_sources, limit)
    ELSE LET sel == Append(selected, results[i]) IN
         IF Len(sel) > limit THEN sel
         ELSE SelectLoop_OffByOne(results, i + 1, sel,
                                  seen_sources \cup {results[i].source_id}, limit)

\* a faulty variant of _select_sources: the loop stops one result late
_select_sources_OffByOne(results, limit) ==
    SelectLoop_OffByOne(results, 1, <<>>, {},
                        IF limit = NoLimit THEN VECTOR_RERANK_LIMIT ELSE limit)

_select_sources(results, limit) ==
    SelectLoop(results, 1, <<>>, {},
               IF limit = NoLimit THEN VECTOR_RERANK_LIMIT ELSE limit)

NO_SOURCES_WORDS == 78
CONTEXT_WORDS == 59
SOURCE_HEADER_WORDS == 4

\* the instructions of the two message templates
NO_SOURCES_DIRECTIVES ==
    { "no_sources_found", "no_external_knowledge", "say_no_information",
      "suggest_explore_platform" }
CONTEXT_DIRECTIVES ==
    { "only_retrieved_context", "no_external_knowledge", "cite_sources",
      "suggest_explore_platform" }

\* a faulty variant of _build_augmented_query: with no sources the message
\* is the bare question
_build_augmented_query_BareQuestion(original_query, srcs, language) ==
    [ template |-> IF srcs = <<>> THEN "no_sources" ELSE "retrieved_context",
      question |-> original_query.text,
      context_parts |-> [i \in 1..Len(srcs) |->
                            [source_type |-> srcs[i].source_type, text |-> srcs[i].text]],
      directives |-> IF srcs = <<>> THEN {} ELSE CONTEXT_DIRECTIVES,
      language |-> IF srcs = <<>> THEN None ELSE language ]

\* RAGPipeline._build_augmented_query
_build_augmented_query(original_query, srcs, language) ==
    [ template |-> IF srcs = <<>> THEN "no_sources" ELSE "retrieved_context",
      question |-> original_query.text,
      context_parts |-> [i \in 1..Len(srcs) |->
                            [source_type |-> srcs[i].source_type, text |-> srcs[i].text]],
      directives |-> IF srcs = <<>> THEN NO_SOURCES_DIRECTIVES ELSE CONTEXT_DIRECTIVES,
      language |-> IF srcs = <<>> THEN None ELSE language ]

----------------------------------------------------------------------------
\* Prompt builder.

\* a faulty variant of _detect_location_type: the current page is tested for
\* museum before memorial
_detect_location_type_MuseumFirst(context) ==
    IF context.museum_id # NoId THEN "museum"
    ELSE IF context.route_id # NoId THEN "route"
    ELSE IF context.current_page # <<>> /\ Contains(LowerText(context.current_page), <<"museum">>)
    THEN "museum"
    ELSE IF context.current_page # <<>> /\ Contains(LowerText(context.current_page), <<"memorial">>)
    THEN "memorial"
    ELSE IF context.current_page # <<>> /\ Contains(LowerText(context.current_page), <<"route">>)
    THEN "route"
    ELSE None

\* PromptBuilder._detect_location_type
_detect_location_type(context) ==
    IF context.museum_id # NoId THEN "museum"
    ELSE IF context.route_id # NoId THEN "route"
    ELSE IF context.current_page # <<>> /\ Contains(LowerText(context.current_page), <<"memorial">>)
    THEN "memorial"
    ELSE IF context.current_page # <<>> /\ Contains(LowerText(context.current_page), <<"museum">>)
    THEN "museum"
    ELSE IF context.current_page # <<>> /\ Contains(LowerText(context.current_page), <<"route">>)
    THEN "route"
    ELSE None

TONE_PROFILES(mode) ==
    IF mode \in {"standard", "personal_voices", "kid_friendly"}
    THEN "TONE:" \o mode ELSE "TONE:standard"

lang_instructions(language) ==
    IF language \in {"en", "fr", "rw"} THEN "LANGUAGE:" \o language ELSE "LANGUAGE:en"

\* a faulty variant of build: the safety rules are joined after the location
\* override
build_SafetyAfterLocation(mode, context, srcs, language) ==
    LET location_type == _detect_location_type(context)
        has_sensitive == \E i \in 1..Len(srcs) : srcs[i].sensitivity = "highly_sensitive"
    IN  << "BASE_IDENTITY", TONE_PROFILES(mode) >>
        \o (IF location_type # None THEN << "LOCATION:" \o location_type >> ELSE <<>>)
        \o << "SAFETY_RULES" >>
        \o << lang_instructions(language) >>
        \o (IF has_sensitive THEN << "NOTE:highly_sensitive" >> ELSE <<>>)

\* a faulty variant of build: the note is added for any source above standard
build_NoteOnSensitive(mode, context, srcs, language) ==
    LET location_type == _detect_location_type(context)
        has_sensitive == \E i \in 1..Len(srcs) : srcs[i].sensitivity # "standard"
    IN  << "BASE_IDENTITY", TONE_PROFILES(mode), "SAFETY_RULES" >>
        \o (IF location_type # None THEN << "LOCATION:" \o location_type >> ELSE <<>>)
        \o << lang_instructions(language) >>
        \o (IF has_sensitive THEN << "NOTE:highly_sensitive" >> ELSE <<>>)

\* PromptBuilder.build: the blocks, in the order they are joined
build(mode, context, srcs, language) ==
    LET location_type == _detect_location_type(context)
        has_sensitive == \E i \in 1..Len(srcs) : srcs[i].sensitivity = "highly_sensitive"
    IN  << "BASE_IDENTITY", TONE_PROFILES(mode), "SAFETY_RULES" >>
        \o (IF location_type # None THEN << "LOCATION:" \o location_type >> ELSE <<>>)
        \o << lang_instructions(language) >>
        \o (IF has_sensitive THEN << "NOTE:highly_sensitive" >> ELSE <<>>)

----------------------------------------------------------------------------
\* LLM router.

LLM_MODEL_FAST == "mistral"
LLM_MODEL_HEAVY == "mixtral"

\* the signals of HEAVY_MODEL_SIGNALS the model's vocabulary can spell
HEAVY_MODEL_SIGNALS ==
    { <<"genocide">>, <<"tutsi">>, <<"memorial">>, <<"testimony">>, <<"survivor">>,
      <<"how", "did">>, <<"witness">>, <<"account">>, <<"experience">> }

RECURSIVE PartsWords(_)
PartsWords(parts) ==
    IF parts = <<>> THEN 0
    ELSE SOURCE_HEADER_WORDS + Len(Head(parts).text) + PartsWords(Tail(parts))

\* a string that is the text alone, in the shape of a message
Plain(text) ==
    [ template |-> "plain", question |-> text, context_parts |-> <<>>, language |-> None ]

\* len(query.split()): of an augmented message, or of a text alone
MessageWords(m) ==
    IF m.template = "no_sources" THEN NO_SOURCES_WORDS + Len(m.question)
    ELSE IF m.template = "retrieved_context"
    THEN CONTEXT_WORDS + Len(m.question) + PartsWords(m.context_parts)
    ELSE Len(m.question)

\* some signal occurs in the lowered message (the fixed template text holds none)
MessageHasSignal(m) ==
    \/ ContainsAny(LowerText(m.question), HEAVY_MODEL_SIGNALS)
    \/ \E i \in 1..Len(m.context_parts) :
          \/ ContainsAny(LowerText(m.context_parts[i].text), HEAVY_MODEL_SIGNALS)
          \/ << m.context_parts[i].source_type >> \in HEAVY_MODEL_SIGNALS

WORD_COUNT_LIMIT == 40

\* a faulty variant of classify_query: a text of exactly 40 words is heavy
classify_query_AtLeast(m, mode) ==
    IF mode = "personal_voices" THEN LLM_MODEL_HEAVY
    ELSE IF MessageHasSignal(m) THEN LLM_MODEL_HEAVY
    ELSE IF MessageWords(m) >= WORD_COUNT_LIMIT THEN LLM_MODEL_HEAVY
    ELSE LLM_MODEL_FAST

classify_query(m, mode) ==
    IF mode = "personal_voices" THEN LLM_MODEL_HEAVY
    ELSE IF MessageHasSignal(m) THEN LLM_MODEL_HEAVY
    ELSE IF MessageWords(m) > WORD_COUNT_LIMIT THEN LLM_MODEL_HEAVY
    ELSE LLM_MODEL_FAST

----------------------------------------------------------------------------
\* Language service.

lang_map(detected) ==
    CASE detected = "en" -> "en" [] detected = "fr" -> "fr"
      [] detected = "rw" -> "rw" [] detected = "sw" -> "rw" [] OTHER -> "en"

MIN_DETECT_LENGTH == 3

\* a faulty variant of detect: a detector that raises is not caught
detect_Propagates(q) ==
    IF q.len < MIN_DETECT_LENGTH THEN {"en"} ELSE {lang_map(q.lang), "raised"}

\* LanguageService.detect: q.lang is what the detector answers for the text;
\* a detector that raises gives "en"
detect(q) ==
    IF q.len < MIN_DETECT_LENGTH THEN {"en"} ELSE {lang_map(q.lang), "en"}

\* LanguageService.translate_to_english: the translation, or the text itself
\* when the translator raises
translate_to_english(q) == {q.en, q.text}

----------------------------------------------------------------------------
\* The inputs.

Query(t, n, l, e) == [text |-> t, len |-> n, lang |-> l, en |-> e]

QPlain    == Query(<<"what", "is", "the", "kigali", "memorial">>, 28, "en",
                   <<"what", "is", "the", "kigali", "memorial">>)
QRw       == Query(<<"muraho", "amakuru">>, 14, "rw", <<"hello", "news">>)
QDenial   == Query(<<"Genocide", "did", "not", "happen">>, 23, "en",
                   <<"Genocide", "did", "not", "happen">>)
QViolence == Query(<<"how", "to", "kill">>, 11, "en", <<"how", "to", "kill">>)
QBoth     == Query(<<"how", "to", "kill", "Double", "genocide">>, 27, "en",
                   <<"how", "to", "kill", "Double", "genocide">>)
QLong     == Query(<<"what", "is", "the", "kigali", "memorial">>, 2001, "en",
                   <<"what", "is", "the", "kigali", "memorial">>)

Queries == {QPlain, QRw, QDenial, QViolence, QBoth, QLong}

Modes == {"kid_friendly", "standard", "personal_voices"}

Context(m, p) ==
    [museum_id |-> m, route_id |-> NoId, location_id |-> NoId, current_page |-> p]

Contexts == {Context(NoId, <<>>), Context("m1", <<>>)}

Requests ==
    [ query : Queries, language : {"auto"}, mode : Modes, context : Contexts,
      access_tier : {"free"}, stream : BOOLEAN ]

\* what the embedding model and the trigram index can say of a chunk
SimScores == {20, 40, 81}
TrgmScores == {10, 60}

\* what the generation backend can send in one delta
Deltas == { <<"Rwanda">>, <<"Double">>, <<"genocide">>, <<"how", "to", "harm">>, <<>> }

RECURSIVE DeltaSeqs(_)
DeltaSeqs(n) ==
    IF n = 0 THEN { <<>> }
    ELSE DeltaSeqs(n - 1) \cup
         { Append(s, d) : s \in { t \in DeltaSeqs(n - 1) : Len(t) = n - 1 }, d \in Deltas }

\* the texts a non-streaming completion can carry
Completions == { Flatten(s) : s \in DeltaSeqs(MaxFragments) }

Call(op, ok) == [op |-> op, ok |-> ok]

Event(token) == [data |-> token]
DONE == Event(<<"[DONE]">>)
ERROR == Event(<<"[ERROR]", "An error occurred while generating the response.">>)
GENERIC_DETAIL == "An error occurred processing your question. Please try again."

----------------------------------------------------------------------------
\* The state after construction: no request yet (the audit log and the store
\* outlive a request and are set by Init).

\* no collaborator has been handed a text yet
NothingPassed ==
    [ check_query |-> NoText, search |-> NoText, keyword_search |-> NoText ]

Idle ==
    /\ pc = "idle"
    /\ req = NoValue
    /\ detected_lang = None
    /\ search_query = NoText
    /\ safety_result = NoValue
    /\ filters = NoValue
    /\ semantic_results = <<>>
    /\ sources = <<>>
    /\ system_prompt = <<>>
    /\ augmented_query = NoValue
    /\ llm_result = NoValue
    /\ response = NoValue
    /\ raised = None
    /\ http = NoValue
    /\ out = <<>>
    /\ calls = <<>>
    /\ semantic_returned = <<>>
    /\ keyword_returned = <<>>
    /\ now = 0
    /\ passed = NothingPassed

\* the requests in flight at once
Invocations == {"a", "b"}

\* the local variables of an invocation that has not started
IdleFrame ==
    [ pc |-> "idle", req |-> NoValue, detected_lang |-> None, search_query |-> NoText,
      safety_result |-> NoValue, filters |-> NoValue, semantic_returned |-> <<>>,
      keyword_returned |-> <<>>, semantic_results |-> <<>>, sources |-> <<>>,
      system_prompt |-> <<>>, augmented_query |-> NoValue, llm_result |-> NoValue,
      response |-> NoValue ]

Init ==
    /\ Idle
    /\ audit = <<>>
    /\ store = Corpus
    /\ arg = NoValue
    /\ ret = NoValue
    /\ frames = [i \in Invocations |-> IdleFrame]
    /\ _detector = None

----------------------------------------------------------------------------
\* The route ask_rwanda takes a request.

Ask_Receive ==
    /\ pc = "idle"
    /\ \E r \in Requests :
          /\ r.query.len <= QUERY_MAX_LENGTH
          /\ req' = r
          /\ pc' = IF r.stream THEN "pqs_start" ELSE "pq_start"
    /\ now' = 0
    /\ UNCHANGED << detected_lang, search_query, safety_result, filters,
                    semantic_results, sources, system_prompt, augmented_query,
                    llm_result, response, raised, http, out, calls,
                    semantic_returned, keyword_returned, audit, store, arg, ret, passed,
                    frames, _detector >>

\* a body whose query is longer than the schema allows is refused before
\* ask_rwanda runs
Ask_Reject ==
    /\ pc = "idle"
    /\ \E r \in Requests :
          /\ r.query.len > QUERY_MAX_LENGTH
          /\ req' = r
    /\ http' = [status |-> 422, detail |-> "string_too_long"]
    /\ pc' = "rejected"
    /\ UNCHANGED << detected_lang, search_query, safety_result, filters,
                    semantic_results, sources, system_prompt, augmented_query,
                    llm_result, response, raised, out, calls, semantic_returned,
                    keyword_returned, audit, store, now, arg, ret, passed,
                    frames, _detector >>

\* ask_rwanda builds RAGPipeline, whose __init__ builds SafetyService, whose
\* __init__ sets up the directory of the audit log; all of it runs before
\* the route's try blocks, so when mkdir raises the exception leaves the route
Ask_InitRaises ==
    /\ pc = "idle"
    /\ ENABLE_AUDIT_LOG
    /\ \E r \in Requests :
          /\ r.query.len <= QUERY_MAX_LENGTH
          /\ req' = r
    /\ raised' = "mkdir"
    /\ http' = [status |-> 500, detail |-> "Internal Server Error"]
    /\ pc' = "failed"
    /\ UNCHANGED << detected_lang, search_query, safety_result, filters,
                    semantic_results, sources, system_prompt, augmented_query,
                    llm_result, response, out, calls, semantic_returned,
                    keyword_returned, audit, store, now, arg, ret, passed,
                    frames, _detector >>

\* a faulty variant of IsBlocked: the decision is never taken as blocking
IsBlocked_Never(decision) == FALSE

\* `if safety_result["blocked"]`
IsBlocked(decision) == decision.blocked

\* a faulty variant of StartCalls: the safety check runs before the language step
StartCalls_CheckFirst(language, dl) ==
    << Call("check_query", TRUE) >>
    \o (IF language = "auto" THEN << Call("detect", TRUE) >> ELSE <<>>)
    \o (IF dl = "rw" THEN << Call("translate_to_english", TRUE) >> ELSE <<>>)

\* a faulty variant of SafetyArgument: the translated text is checked
SafetyArgument_Translated(query, sq) == [query EXCEPT !.text = sq]

\* the argument of safety.check_query: the query as the user sent it
SafetyArgument(query, sq) == query

\* the argument of search and keyword_search: the search text
SearchArgument(query, sq) == sq

\* the calls of steps 1 and 2, in order
StartCalls(language, dl) ==
    (IF language = "auto" THEN << Call("detect", TRUE) >> ELSE <<>>)
    \o (IF dl = "rw" THEN << Call("translate_to_english", TRUE) >> ELSE <<>>)
    \o << Call("check_query", TRUE) >>

----------------------------------------------------------------------------
\* RAGPipeline.process_query, one action per stretch between awaits.

\* steps 1 to 3: language, safety check (and the return of a blocked query),
\* filters
PQ_Start ==
    /\ pc = "pq_start"
    /\ \E dl \in (IF req.language = "auto" THEN detect(req.query) ELSE {req.language}) :
          \E sq \in (IF dl = "rw" THEN translate_to_english(req.query) ELSE {req.query.text}) :
          \E log \in QueryLogs(audit, SafetyArgument(req.query, sq), now) :
             /\ detected_lang' = dl
             /\ search_query' = sq
             /\ audit' = log
             /\ calls' = calls \o StartCalls(req.language, dl)
             /\ safety_result' = CheckQuery(SafetyArgument(req.query, sq))
             /\ passed' = [passed EXCEPT
                             !.check_query = SafetyArgument(req.query, sq).text]
             /\ now' = now + 1
             /\ IF IsBlocked(CheckQuery(SafetyArgument(req.query, sq)))
                THEN /\ response' =
                          [ answer |-> CheckQuery(SafetyArgument(req.query, sq)).safe_response,
                            sources |-> <<>>,
                            language_detected |-> dl,
                            language_response |-> dl,
                            mode |-> req.mode,
                            model_used |-> "safety_filter",
                            related_content |-> <<>>,
                            processing_time_ms |-> now' ]
                     /\ pc' = "pq_returned"
                     /\ UNCHANGED filters
                ELSE /\ filters' = _build_filters(req.context, req.mode)
                     /\ pc' = "pq_search"
                     /\ UNCHANGED response
    /\ UNCHANGED << req, semantic_results, sources, system_prompt, augmented_query,
                    llm_result, raised, http, out, semantic_returned,
                    keyword_returned, store, arg, ret,
                    frames, _detector >>

\* step 4, the semantic search returns
PQ_Search ==
    /\ pc = "pq_search"
    /\ \E sim \in [ChunkIds -> SimScores] :
          \E r \in Search(store, sim, filters, VECTOR_SEARCH_LIMIT) :
             /\ semantic_results' = r
             /\ semantic_returned' = r
             /\ pc' = IF NeedsFallback(r) THEN "pq_keyword" ELSE "pq_select"
    /\ calls' = Append(calls, Call("search", TRUE))
    /\ now' = now + 1
    /\ passed' = [passed EXCEPT !.search = SearchArgument(req.query, search_query)]
    /\ UNCHANGED << req, detected_lang, search_query, safety_result, filters, sources,
                    system_prompt, augmented_query, llm_result, response, raised,
                    http, out, keyword_returned, audit, store, arg, ret,
                    frames, _detector >>

\* step 4, the keyword fallback returns and is merged
PQ_Keyword ==
    /\ pc = "pq_keyword"
    /\ \E trgm \in [ChunkIds -> TrgmScores] :
          \E k \in KeywordSearch(store, trgm, KEYWORD_LIMIT) :
             /\ keyword_returned' = k
             /\ semantic_results' = Merge(semantic_results, k)
    /\ pc' = "pq_select"
    /\ calls' = Append(calls, Call("keyword_search", TRUE))
    /\ now' = now + 1
    /\ passed' = [passed EXCEPT
                    !.keyword_search = SearchArgument(req.query, search_query)]
    /\ UNCHANGED << req, detected_lang, search_query, safety_result, filters, sources,
                    system_prompt, augmented_query, llm_result, response, raised,
                    http, out, semantic_returned, audit, store, arg, ret,
                    frames, _detector >>

\* steps 5 and 6 and the augmented message
PQ_Select ==
    /\ pc = "pq_select"
    /\ sources' = _select_sources(semantic_results, VECTOR_RERANK_LIMIT)
    /\ system_prompt' = build(req.mode, req.context, sources', detected_lang)
    /\ augmented_query' = _build_augmented_query(req.query, sources', detected_lang)
    /\ pc' = "pq_generate"
    /\ calls' = calls \o << Call("_select_sources", TRUE), Call("build", TRUE) >>
    /\ UNCHANGED << req, detected_lang, search_query, safety_result, filters,
                    semantic_results, llm_result, response, raised, http, out,
                    semantic_returned, keyword_returned, audit, store, now, arg, ret, passed,
                    frames, _detector >>

\* step 7, LLMRouter.generate returns
PQ_Generate ==
    /\ pc = "pq_generate"
    /\ \E content \in Completions :
          llm_result' = [ content |-> content,
                          model |-> classify_query(augmented_query, req.mode) ]
    /\ pc' = "pq_post"
    /\ calls' = Append(calls, Call("generate", TRUE))
    /\ now' = now + 1
    /\ UNCHANGED << req, detected_lang, search_query, safety_result, filters,
                    semantic_results, sources, system_prompt, augmented_query,
                    response, raised, http, out, semantic_returned,
                    keyword_returned, audit, store, arg, ret, passed,
                    frames, _detector >>

ResponseSource(s) ==
    [ source_id |-> s.source_id, source_type |-> s.source_type, excerpt |-> s.text,
      similarity_score |-> s.similarity_score, sensitivity |-> s.sensitivity ]

\* step 8: the output check and the response
PQ_PostProcess ==
    /\ pc = "pq_post"
    /\ LET output_check == CheckOutput(llm_result.content) IN
       /\ audit' \in (IF output_check.flagged
                      THEN LogFlagged(audit, llm_result.content, Len(llm_result.content),
                                      output_check.reason, TRUE, now)
                      ELSE {audit})
       /\ response' =
             [ answer |-> IF output_check.flagged THEN output_check.filtered_response
                          ELSE llm_result.content,
               sources |-> [i \in 1..Len(sources) |-> ResponseSource(sources[i])],
               language_detected |-> detected_lang,
               language_response |-> detected_lang,
               mode |-> req.mode,
               model_used |-> llm_result.model,
               related_content |-> <<>>,
               processing_time_ms |-> now ]
    /\ pc' = "pq_returned"
    /\ calls' = Append(calls, Call("check_output", TRUE))
    /\ UNCHANGED << req, detected_lang, search_query, safety_result, filters,
                    semantic_results, sources, system_prompt, augmented_query,
                    llm_result, raised, http, out, semantic_returned,
                    keyword_returned, store, now, arg, ret, passed,
                    frames, _detector >>

\* the collaborator awaited at a position of process_query
Awaited(p) ==
    CASE p \in {"pq_search", "pqs_search"} -> "search"
      [] p \in {"pq_keyword", "pqs_keyword"} -> "keyword_search"
      [] p = "pq_generate" -> "generate"
      [] p \in {"pqs_generate", "pqs_streaming"} -> "generate_stream"

\* a faulty variant of PQ_Raises: the failure is caught and taken for an empty result
PQ_Raises_Swallowed ==
    /\ pc \in {"pq_search", "pq_keyword", "pq_generate"}
    /\ calls' = Append(calls, Call(Awaited(pc), FALSE))
    /\ pc' = CASE pc = "pq_search" -> "pq_keyword"
               [] pc = "pq_keyword" -> "pq_select"
               [] pc = "pq_generate" -> "pq_post"
    /\ llm_result' = IF pc = "pq_generate"
                     THEN [content |-> <<>>, model |-> LLM_MODEL_FAST] ELSE llm_result
    /\ now' = now + 1
    /\ passed' = IF Awaited(pc) \in {"search", "keyword_search"}
                  THEN [passed EXCEPT
                           ![Awaited(pc)] = SearchArgument(req.query, search_query)]
                  ELSE passed
    /\ UNCHANGED << req, detected_lang, search_query, safety_result, filters,
                    semantic_results, sources, system_prompt, augmented_query,
                    response, raised, http, out, semantic_returned,
                    keyword_returned, audit, store, arg, ret,
                    frames, _detector >>

\* the awaited call raises (store or backend failure); process_query has no
\* handler, so the exception leaves it
PQ_Raises ==
    /\ pc \in {"pq_search", "pq_keyword", "pq_generate"}
    /\ raised' = Awaited(pc)
    /\ calls' = Append(calls, Call(Awaited(pc), FALSE))
    /\ pc' = "pq_raised"
    /\ now' = now + 1
    /\ passed' = IF Awaited(pc) \in {"search", "keyword_search"}
                  THEN [passed EXCEPT
                           ![Awaited(pc)] = SearchArgument(req.query, search_query)]
                  ELSE passed
    /\ UNCHANGED << req, detected_lang, search_query, safety_result, filters,
                    semantic_results, sources, system_prompt, augmented_query,
                    llm_result, response, http, out, semantic_returned,
                    keyword_returned, audit, store, arg, ret,
                    frames, _detector >>

\* ask_rwanda returns the result
Ask_Return ==
    /\ pc = "pq_returned"
    /\ http' = [status |-> 200, body |-> response]
    /\ pc' = "done"
    /\ UNCHANGED << req, detected_lang, search_query, safety_result, filters,
                    semantic_results, sources, system_prompt, augmented_query,
                    llm_result, response, raised, out, calls, semantic_returned,
                    keyword_returned, audit, store, now, arg, ret, passed,
                    frames, _detector >>

\* ask_rwanda's except clause
Ask_HTTPException ==
    /\ pc = "pq_raised"
    /\ http' = [status |-> 500, detail |-> GENERIC_DETAIL]
    /\ raised' = None
    /\ pc' = "done"
    /\ UNCHANGED << req, detected_lang, search_query, safety_result, filters,
                    semantic_results, sources, system_prompt, augmented_query,
                    llm_result, response, out, calls, semantic_returned,
                    keyword_returned, audit, store, now, arg, ret, passed,
                    frames, _detector >>

----------------------------------------------------------------------------
\* RAGPipeline.process_query_stream inside ask_rwanda's event_stream: every
\* token the generator yields is wrapped into an event and yielded on.

PQS_Start ==
    /\ pc = "pqs_start"
    /\ \E dl \in (IF req.language = "auto" THEN detect(req.query) ELSE {req.language}) :
          \E sq \in (IF dl = "rw" THEN translate_to_english(req.query) ELSE {req.query.text}) :
          \E log \in QueryLogs(audit, SafetyArgument(req.query, sq), now) :
             /\ detected_lang' = dl
             /\ search_query' = sq
             /\ audit' = log
             /\ calls' = calls \o StartCalls(req.language, dl)
             /\ safety_result' = CheckQuery(SafetyArgument(req.query, sq))
             /\ passed' = [passed EXCEPT
                             !.check_query = SafetyArgument(req.query, sq).text]
             /\ now' = now + 1
             /\ IF IsBlocked(CheckQuery(SafetyArgument(req.query, sq)))
                THEN /\ out' = Append(out, Event(CheckQuery(SafetyArgument(
                                                  req.query, sq)).safe_response))
                     /\ pc' = "pqs_exhausted"
                     /\ UNCHANGED filters
                ELSE /\ filters' = _build_filters(req.context, req.mode)
                     /\ pc' = "pqs_search"
                     /\ UNCHANGED out
    /\ UNCHANGED << req, semantic_results, sources, system_prompt, augmented_query,
                    llm_result, response, raised, http, semantic_returned,
                    keyword_returned, store, arg, ret,
                    frames, _detector >>

PQS_Search ==
    /\ pc = "pqs_search"
    /\ \E sim \in [ChunkIds -> SimScores] :
          \E r \in Search(store, sim, filters, NoLimit) :
             /\ semantic_results' = r
             /\ semantic_returned' = r
             /\ pc' = IF NeedsFallback(r) THEN "pqs_keyword" ELSE "pqs_select"
    /\ calls' = Append(calls, Call("search", TRUE))
    /\ now' = now + 1
    /\ passed' = [passed EXCEPT !.search = SearchArgument(req.query, search_query)]
    /\ UNCHANGED << req, detected_lang, search_query, safety_result, filters, sources,
                    system_prompt, augmented_query, llm_result, response, raised,
                    http, out, keyword_returned, audit, store, arg, ret,
                    frames, _detector >>

PQS_Keyword ==
    /\ pc = "pqs_keyword"
    /\ \E trgm \in [ChunkIds -> TrgmScores] :
          \E k \in KeywordSearch(store, trgm, KEYWORD_LIMIT) :
             /\ keyword_returned' = k
             /\ semantic_results' = Merge(semantic_results, k)
    /\ pc' = "pqs_select"
    /\ calls' = Append(calls, Call("keyword_search", TRUE))
    /\ now' = now + 1
    /\ passed' = [passed EXCEPT
                    !.keyword_search = SearchArgument(req.query, search_query)]
    /\ UNCHANGED << req, detected_lang, search_query, safety_result, filters, sources,
                    system_prompt, augmented_query, llm_result, response, raised,
                    http, out, semantic_returned, audit, store, arg, ret,
                    frames, _detector >>

\* a faulty variant of PQS_Select: the streaming path keeps one source only
PQS_Select_One ==
    /\ pc = "pqs_select"
    /\ sources' = _select_sources(semantic_results, 1)
    /\ system_prompt' = build(req.mode, req.context, sources', detected_lang)
    /\ augmented_query' = _build_augmented_query(req.query, sources', detected_lang)
    /\ pc' = "pqs_generate"
    /\ calls' = calls \o << Call("_select_sources", TRUE), Call("build", TRUE) >>
    /\ UNCHANGED << req, detected_lang, search_query, safety_result, filters,
                    semantic_results, llm_result, response, raised, http, out,
                    semantic_returned, keyword_returned, audit, store, now, arg, ret,
                    passed,
                    frames, _detector >>

PQS_Select ==
    /\ pc = "pqs_select"
    /\ sources' = _select_sources(semantic_results, NoLimit)
    /\ system_prompt' = build(req.mode, req.context, sources', detected_lang)
    /\ augmented_query' = _build_augmented_query(req.query, sources', detected_lang)
    /\ pc' = "pqs_generate"
    /\ calls' = calls \o << Call("_select_sources", TRUE), Call("build", TRUE) >>
    /\ UNCHANGED << req, detected_lang, search_query, safety_result, filters,
                    semantic_results, llm_result, response, raised, http, out,
                    semantic_returned, keyword_returned, audit, store, now, arg, ret, passed,
                    frames, _detector >>

\* LLMRouter.generate_stream up to its first delta: the completion request
\* is accepted
PQS_OpenStream ==
    /\ pc = "pqs_generate"
    /\ llm_result' = [ model |-> classify_query(augmented_query, req.mode),
                       deltas |-> <<>>, released |-> FALSE ]
    /\ pc' = "pqs_streaming"
    /\ calls' = Append(calls, Call("generate_stream", TRUE))
    /\ now' = now + 1
    /\ UNCHANGED << req, detected_lang, search_query, safety_result, filters,
                    semantic_results, sources, system_prompt, augmented_query,
                    response, raised, http, out, semantic_returned,
                    keyword_returned, audit, store, arg, ret, passed,
                    frames, _detector >>

\* one delta arrives; a delta with content is yielded to the consumer as it is
PQS_Token ==
    /\ pc = "pqs_streaming"
    /\ Len(llm_result.deltas) < MaxFragments
    /\ \E d \in Deltas :
          /\ out' = IF d # <<>> THEN Append(out, Event(d)) ELSE out
          /\ llm_result' = [llm_result EXCEPT !.deltas = Append(@, d)]
    /\ now' = now + 1
    /\ UNCHANGED << pc, req, detected_lang, search_query, safety_result, filters,
                    semantic_results, sources, system_prompt, augmented_query,
                    response, raised, http, calls, semantic_returned,
                    keyword_returned, audit, store, arg, ret, passed,
                    frames, _detector >>

\* the backend ends the stream: the response has been read to its end, the
\* connection goes back to the pool, and the generator returns
PQS_StreamEnd ==
    /\ pc = "pqs_streaming"
    /\ pc' = "pqs_exhausted"
    /\ llm_result' = [llm_result EXCEPT !.released = TRUE]
    /\ now' = now + 1
    /\ UNCHANGED << req, detected_lang, search_query, safety_result, filters,
                    semantic_results, sources, system_prompt, augmented_query,
                    response, raised, http, out, calls,
                    semantic_returned, keyword_returned, audit, store, arg, ret, passed,
                    frames, _detector >>

\* the consumer of the streaming response goes away while the stream is being
\* read: the iteration of event_stream stops where it is.  No statement of
\* event_stream, process_query_stream or generate_stream closes the stream
\* (no finally, no async with, and CancelledError and GeneratorExit are not
\* caught by `except Exception`), so whether the backend connection is
\* released is left to the finalisation of the abandoned generators: both
\* outcomes are taken
ES_Cancel ==
    /\ pc = "pqs_streaming"
    /\ pc' = "cancelled"
    /\ \E released \in BOOLEAN :
          llm_result' = [llm_result EXCEPT !.released = released]
    /\ UNCHANGED << req, detected_lang, search_query, safety_result, filters,
                    semantic_results, sources, system_prompt, augmented_query,
                    response, raised, http, out, calls,
                    semantic_returned, keyword_returned, audit, store, now, arg, ret,
                    passed,
                    frames, _detector >>

\* the awaited call raises: the searches, the completion request, or the
\* stream while it is being read
PQS_Raises ==
    /\ pc \in {"pqs_search", "pqs_keyword", "pqs_generate", "pqs_streaming"}
    /\ raised' = Awaited(pc)
    /\ calls' = Append(calls, Call(Awaited(pc), FALSE))
    /\ pc' = "pqs_raised"
    /\ now' = now + 1
    /\ passed' = IF Awaited(pc) \in {"search", "keyword_search"}
                  THEN [passed EXCEPT
                           ![Awaited(pc)] = SearchArgument(req.query, search_query)]
                  ELSE passed
    /\ UNCHANGED << req, detected_lang, search_query, safety_result, filters,
                    semantic_results, sources, system_prompt, augmented_query,
                    llm_result, response, http, out, semantic_returned,
                    keyword_returned, audit, store, arg, ret,
                    frames, _detector >>

\* event_stream after the loop: the completion marker
ES_Done ==
    /\ pc = "pqs_exhausted"
    /\ out' = Append(out, DONE)
    /\ pc' = "done"
    /\ UNCHANGED << req, detected_lang, search_query, safety_result, filters,
                    semantic_results, sources, system_prompt, augmented_query,
                    llm_result, response, raised, http, calls, semantic_returned,
                    keyword_returned, audit, store, now, arg, ret, passed,
                    frames, _detector >>

\* a faulty variant of ES_Error: no except clause, the exception leaves the stream
ES_Error_NoHandler ==
    /\ pc = "pqs_raised"
    /\ pc' = "done"
    /\ UNCHANGED << req, detected_lang, search_query, safety_result, filters,
                    semantic_results, sources, system_prompt, augmented_query,
                    llm_result, response, raised, http, out, calls,
                    semantic_returned, keyword_returned, audit, store, now, arg, ret, passed,
                    frames, _detector >>

\* event_stream's except clause: the in-band error marker
ES_Error ==
    /\ pc = "pqs_raised"
    /\ out' = Append(out, ERROR)
    /\ raised' = None
    /\ pc' = "done"
    /\ UNCHANGED << req, detected_lang, search_query, safety_result, filters,
                    semantic_results, sources, system_prompt, augmented_query,
                    llm_result, response, http, calls, semantic_returned,
                    keyword_returned, audit, store, now, arg, ret, passed,
                    frames, _detector >>

----------------------------------------------------------------------------
\* The source selector and the semantic search applied on their own.

SelSources == {"s1", "s2", "s3"}
SelScores == {40, 76, 81}
SearchScores == {20, 30, 40, 81}

IdAt(i) == << "c1", "c2", "c3", "c4", "c5" >>[i]

\* result lists as the retrieval step builds them: one entry per chunk
ResultLists ==
    UNION { { [i \in 1..n |-> Result(Row(IdAt(i), f[i][1], "story", "standard", NoId,
                                         <<"kigali">>), f[i][2])] :
                f \in [1..n -> SelSources \X SelScores] } : n \in 0..MaxResults }

Select_Call ==
    /\ arg = NoValue
    /\ \E results \in ResultLists, limit \in 0..MaxLimit :
          /\ arg' = [fn |-> "_select_sources", results |-> results, limit |-> limit]
          /\ ret' = _select_sources(results, limit)
    /\ UNCHANGED << pipeline_vars, store >>

SearchFilters ==
    [ sensitivity : Tiers \cup {NoId, "public"}, location_id : {NoId},
      museum_id : {NoId, "m1"}, route_id : {NoId} ]

Search_Call ==
    /\ arg = NoValue
    /\ \E sim \in [ChunkIds -> SearchScores], f \in SearchFilters, limit \in 0..MaxLimit :
          /\ arg' = [fn |-> "search", sim |-> sim, filters |-> f, limit |-> limit]
          /\ ret' \in Search(store, sim, f, limit)
    /\ UNCHANGED << pipeline_vars, store >>

NextSelect == Select_Call

SpecSelect == Init /\ [][NextSelect]_vars

NextSearch == Search_Call

SpecSearch == Init /\ [][NextSearch]_vars

----------------------------------------------------------------------------
\* The router applied on its own.

\* the longest free part of a routed text, in words
MaxWords == 2

RouteVocabulary == {"what", "Genocide", "how", "did", "kigali"}

Filler(n) == [i \in 1..n |-> "the"]

\* texts of up to MaxWords free words, alone or padded to about 40 words
RouteTexts ==
    { head \o Filler(pad) :
        head \in UNION { [1..k -> RouteVocabulary] : k \in 0..MaxWords },
        pad \in {0} \cup ((WORD_COUNT_LIMIT - MaxWords)..(WORD_COUNT_LIMIT + 1)) }

RouteModes == Modes \cup {"other"}

Route_Call ==
    /\ arg = NoValue
    /\ \E text \in RouteTexts, mode \in RouteModes :
          /\ arg' = [fn |-> "classify_query", query |-> text, mode |-> mode]
          /\ ret' = classify_query(Plain(text), mode)
    /\ UNCHANGED << pipeline_vars, store >>

NextRoute == Route_Call

SpecRoute == Init /\ [][NextRoute]_vars

----------------------------------------------------------------------------
\* The prompt builder applied on its own.

BuildContexts ==
    [ museum_id : {NoId, "m1"}, route_id : {NoId, "r1"}, location_id : {NoId},
      current_page : { <<>>, <<"story", "memorial">>, <<"museum">>, <<"route">>,
                       <<"story">>, <<"museum", "Memorial">>, <<"route", "museum">> } ]

\* source lists of up to MaxResults chunks of any tier
BuildSources ==
    UNION { { [i \in 1..n |-> Result(Row(IdAt(i), "s1", "story", f[i], NoId,
                                         <<"kigali">>), 81)] :
                f \in [1..n -> Tiers] } : n \in 0..MaxResults }

BuildLanguages == {"en", "fr", "rw", "de"}

Build_Call ==
    /\ arg = NoValue
    /\ \E mode \in RouteModes, context \in BuildContexts, srcs \in BuildSources,
          language \in BuildLanguages :
          /\ arg' = [fn |-> "build", mode |-> mode, context |-> context,
                     sources |-> srcs, language |-> language]
          /\ ret' = build(mode, context, srcs, language)
    /\ UNCHANGED << pipeline_vars, store >>

NextBuild == Build_Call

SpecBuild == Init /\ [][NextBuild]_vars

----------------------------------------------------------------------------
\* The stages 4.1 and 4.2 applied on their own: the language normalizer and
\* the two safety checks.

SafetyVocabulary == {"Double", "genocide", "ethnic", "cleansing", "kigali"}

\* texts of up to twice MaxWords words
SafetyTexts ==
    { h \o t : h, t \in UNION { [1..k -> SafetyVocabulary] : k \in 0..MaxWords } }

\* lengths in characters: short, the maximum, one more, and the 2500 of the
\* specification's scenario
QueryLengths == {100, SAFETY_MAX_QUERY_LENGTH, SAFETY_MAX_QUERY_LENGTH + 1, 2500}

SafetyQueries == { Query(t, n, "en", t) : t \in SafetyTexts, n \in QueryLengths }

OutputLengths == {20, PREVIEW_LENGTH, PREVIEW_LENGTH + 1}

LanguageQueries ==
    { Query(t, n, l, <<"hello", "news">>) :
        t \in { <<"muraho", "amakuru">>, <<"hi">> },
        n \in {MIN_DETECT_LENGTH - 1, MIN_DETECT_LENGTH, 14},
        l \in {"en", "fr", "rw", "sw", "de"} }

\* an entry an earlier request left in the audit log
OldEntry == AuditEntry(<<"how", "to", "kill">>, 11, "violence_promotion", FALSE, 0)

InitStages ==
    /\ frames = [i \in Invocations |-> IdleFrame]
    /\ _detector = None
    /\ Idle
    /\ audit \in { <<>>, << OldEntry >> }
    /\ store = Corpus
    /\ arg = NoValue
    /\ ret = NoValue

CheckQuery_Call ==
    /\ arg = NoValue
    /\ \E q \in SafetyQueries :
          /\ arg' = [fn |-> "check_query", query |-> q, log |-> audit]
          /\ ret' = CheckQuery(q)
          /\ audit' \in QueryLogs(audit, q, now)
    /\ UNCHANGED << pc, req, detected_lang, search_query, safety_result, filters,
                    semantic_results, sources, system_prompt, augmented_query,
                    llm_result, response, raised, http, out, calls,
                    semantic_returned, keyword_returned, store, now, passed,
                    frames, _detector >>

CheckOutput_Call ==
    /\ arg = NoValue
    /\ \E text \in Completions, n \in OutputLengths :
          /\ arg' = [fn |-> "check_output", response |-> text, len |-> n, log |-> audit]
          /\ ret' = CheckOutput(text)
          /\ audit' \in (IF CheckOutput(text).flagged
                         THEN LogFlagged(audit, text, Min(n, PREVIEW_LENGTH),
                                         CheckOutput(text).reason, TRUE, now)
                         ELSE {audit})
    /\ UNCHANGED << pc, req, detected_lang, search_query, safety_result, filters,
                    semantic_results, sources, system_prompt, augmented_query,
                    llm_result, response, raised, http, out, calls,
                    semantic_returned, keyword_returned, store, now, passed,
                    frames, _detector >>

Detect_Call ==
    /\ arg = NoValue
    /\ \E q \in LanguageQueries :
          /\ arg' = [fn |-> "detect", query |-> q]
          /\ ret' \in detect(q)
    /\ UNCHANGED << pipeline_vars, store >>

Translate_Call ==
    /\ arg = NoValue
    /\ \E q \in LanguageQueries :
          /\ arg' = [fn |-> "translate_to_english", query |-> q]
          /\ ret' \in translate_to_english(q)
    /\ UNCHANGED << pipeline_vars, store >>

NextStages == CheckQuery_Call \/ CheckOutput_Call \/ Detect_Call \/ Translate_Call

SpecStages == InitStages /\ [][NextStages]_vars

----------------------------------------------------------------------------
\* The sensitivity ceiling of a mode, and the search under it.

Ceiling_Call ==
    /\ arg = NoValue
    /\ \E mode \in RouteModes, sim \in [ChunkIds -> SearchScores] :
          LET ceiling == get_sensitivity_for_mode(mode) IN
          /\ arg' = [fn |-> "get_sensitivity_for_mode", mode |-> mode, sim |-> sim]
          /\ \E r \in Search(store, sim, [NoFilters EXCEPT !.sensitivity = ceiling], NoLimit) :
                ret' = [ceiling |-> ceiling, allowed |-> Allowed(ceiling), results |-> r]
    /\ UNCHANGED << pipeline_vars, store >>

NextCeiling == Ceiling_Call

SpecCeiling == Init /\ [][NextCeiling]_vars

----------------------------------------------------------------------------
\* The chunk store: insertions and deletions.

\* the longest batch handed to store_chunks
MaxChunks == 2
\* the latest time of the store's clock at which store_chunks is called
MaxTime == 2

Chunk(c, txt) ==
    [ chunk_id |-> c, source_id |-> "s2", source_type |-> "testimony",
      language |-> "fr", sensitivity |-> "sensitive", location_id |-> "l1",
      museum_id |-> NoId, route_id |-> "r1", tags |-> <<"palace">>, text |-> txt ]

Chunks == { Chunk("c1", <<"kigali">>), Chunk("c1", <<"nyanza", "palace">>),
            Chunk("c4", <<"kigali">>) }

ChunkBatches == UNION { [1..n -> Chunks] : n \in 0..MaxChunks }

\* the row the VALUES list of the INSERT describes, inserted at time ts
Values(chunk, ts) ==
    [ chunk_id |-> chunk.chunk_id, source_id |-> chunk.source_id,
      source_type |-> chunk.source_type, language |-> chunk.language,
      sensitivity |-> chunk.sensitivity, location_id |-> chunk.location_id,
      museum_id |-> chunk.museum_id, route_id |-> chunk.route_id,
      tags |-> chunk.tags, text |-> chunk.text,
      embedding |-> embed_texts(chunk.text), created_at |-> ts, updated_at |-> ts ]

\* a faulty variant of Upsert: a plain INSERT, no ON CONFLICT clause
Upsert_Insert(rows, chunk, ts) ==
    rows \cup { Values(chunk, ts) }

\* a faulty variant of Upsert: on conflict every column but created_at is
\* replaced by the new values
Upsert_SetAll(rows, chunk, ts) ==
    IF \E row \in rows : row.chunk_id = chunk.chunk_id
    THEN { IF row.chunk_id = chunk.chunk_id
           THEN [Values(chunk, ts) EXCEPT !.created_at = row.created_at]
           ELSE row : row \in rows }
    ELSE rows \cup { Values(chunk, ts) }

\* INSERT ... ON CONFLICT (chunk_id) DO UPDATE SET text_content, embedding,
\* updated_at = NOW()
Upsert(rows, chunk, ts) ==
    IF \E row \in rows : row.chunk_id = chunk.chunk_id
    THEN { IF row.chunk_id = chunk.chunk_id
           THEN [row EXCEPT !.text = chunk.text, !.embedding = embed_texts(chunk.text),
                            !.updated_at = ts]
           ELSE row : row \in rows }
    ELSE rows \cup { Values(chunk, ts) }

\* the loop of store_chunks: the statement of a chunk in `failed` raises and
\* is recorded as an error, the others are executed in order
RECURSIVE StoreLoop(_, _, _, _, _)
StoreLoop(rows, chunks, i, failed, ts) ==
    IF i > Len(chunks) THEN rows
    ELSE IF i \in failed THEN StoreLoop(rows, chunks, i + 1, failed, ts)
    ELSE StoreLoop(Upsert(rows, chunks[i], ts), chunks, i + 1, failed, ts)

Errors(chunks, failed) ==
    LET Failed(i) == i \in failed
        idx == SelectSeq([i \in 1..Len(chunks) |-> i], Failed)
    IN  [k \in 1..Len(idx) |-> chunks[idx[k]].chunk_id]

\* store_chunks, called while the store's clock is within MaxTime
Store_Chunks ==
    /\ now < MaxTime
    /\ now' = now + 1
    /\ \E chunks \in ChunkBatches, failed \in SUBSET (1..MaxChunks + 1) :
          /\ failed \subseteq 1..Len(chunks)
          /\ store' = StoreLoop(store, chunks, 1, failed, now')
          /\ arg' = [fn |-> "store_chunks", chunks |-> chunks, failed |-> failed,
                     before |-> store]
          /\ ret' = [ success |-> Len(chunks) - Cardinality(failed),
                      errors |-> Errors(chunks, failed) ]
    /\ UNCHANGED request_vars

\* the command tag asyncpg returns for a DELETE of n rows
DeleteStatus(n) == << "DELETE", n >>

\* a faulty variant of Delete_By_Source: the DELETE has no WHERE clause
Delete_By_Source_NoWhere ==
    /\ \E source_id \in {"s1", "s2", "s9"} :
          LET result == DeleteStatus(Cardinality(store))
          IN  /\ store' = {}
              /\ arg' = [fn |-> "delete_by_source", source_id |-> source_id,
                         before |-> store]
              /\ ret' = result[Len(result)]
    /\ UNCHANGED pipeline_vars

\* delete_by_source: DELETE ... WHERE source_id = $1; the count is the last
\* word of the command tag
Delete_By_Source ==
    /\ \E source_id \in {"s1", "s2", "s9"} :
          LET result == DeleteStatus(Cardinality({row \in store :
                                                     row.source_id = source_id}))
          IN  /\ store' = {row \in store : row.source_id # source_id}
              /\ arg' = [fn |-> "delete_by_source", source_id |-> source_id,
                         before |-> store]
              /\ ret' = result[Len(result)]
    /\ UNCHANGED pipeline_vars

NextStore == Store_Chunks \/ Delete_By_Source

SpecStore == Init /\ [][NextStore]_vars

\* The filter builder applied on its own.

FilterContexts ==
    [ museum_id : {NoId, "m1"}, route_id : {NoId, "r1"}, location_id : {NoId, "l1"},
      current_page : { <<>> } ]

AccessTiers == {"free", "day_pass", "subscriber", "agency"}

Filters_Call ==
    /\ arg = NoValue
    /\ \E context \in FilterContexts, mode \in RouteModes, access_tier \in AccessTiers :
          /\ arg' = [fn |-> "_build_filters", context |-> context, mode |-> mode,
                     access_tier |-> access_tier]
          /\ ret' = _build_filters(context, mode)
    /\ UNCHANGED << pipeline_vars, store >>

NextFilters == Filters_Call

SpecFilters == Init /\ [][NextFilters]_vars

----------------------------------------------------------------------------

\* Concurrent invocations of process_query.  Each request builds its own
\* RAGPipeline (ask_rwanda l.31-34) and runs process_query as a coroutine:
\* its variables are locals of that coroutine, and it is suspended only at
\* its awaits (search, keyword_search, generate).  The invocations share the
\* store, the audit log file and the module global _detector.

ConcRequests ==
    [ query : {QRw, QDenial}, language : {"auto"},
      mode : {"kid_friendly", "personal_voices"}, context : Contexts,
      access_tier : {"free"}, stream : {FALSE} ]

\* what the embedding model says of the chunks for a query: nothing close,
\* the standard chunk closest, the highly sensitive chunk closest
ConcSims ==
    { [c \in ChunkIds |-> 20],
      [c \in ChunkIds |-> CASE c = "c1" -> 81 [] c = "c2" -> 40 [] OTHER -> 20],
      [c \in ChunkIds |-> CASE c = "c1" -> 40 [] c = "c3" -> 81 [] OTHER -> 20] }

\* what the trigram index says: no match, or the highly sensitive chunk
ConcTrgms ==
    { [c \in ChunkIds |-> 10],
      [c \in ChunkIds |-> IF c = "c3" THEN 60 ELSE 10] }

ConcCompletions == { <<"Rwanda">>, <<"Double", "genocide">> }

\* a faulty variant of FiltersRead: the filters are kept in one slot shared by
\* the invocations, which holds those of the other invocation once it started
FiltersRead_Shared(i) ==
    LET j == CHOOSE j \in Invocations : j # i
    IN  IF frames[j].filters # NoValue THEN frames[j].filters ELSE frames[i].filters

\* the filters handed to search: the local variable of the invocation
FiltersRead(i) == frames[i].filters

\* steps 5 and 6 of an invocation, on its own result list
Selected(f, results) ==
    LET srcs == _select_sources(results, VECTOR_RERANK_LIMIT)
    IN  [f EXCEPT !.semantic_results = results,
                  !.sources = srcs,
                  !.system_prompt = build(f.req.mode, f.req.context, srcs, f.detected_lang),
                  !.augmented_query = _build_augmented_query(f.req.query, srcs,
                                                             f.detected_lang),
                  !.pc = "generate"]

\* an invocation from the request to its first await
Conc_Start(i) ==
    /\ frames[i].pc = "idle"
    /\ \E r \in ConcRequests :
       \E dl \in detect(r.query) :
       \E sq \in (IF dl = "rw" THEN translate_to_english(r.query) ELSE {r.query.text}) :
          LET d == CheckQuery(r.query)
              f == [frames[i] EXCEPT !.req = r, !.detected_lang = dl,
                                     !.search_query = sq, !.safety_result = d]
          IN  /\ audit' \in QueryLogs(audit, r.query, now)
              /\ frames' = [frames EXCEPT ![i] =
                    IF IsBlocked(d)
                    THEN [f EXCEPT !.pc = "returned",
                                   !.response =
                                      [ answer |-> d.safe_response,
                                        sources |-> <<>>,
                                        language_detected |-> dl,
                                        language_response |-> dl,
                                        mode |-> r.mode,
                                        model_used |-> "safety_filter",
                                        related_content |-> <<>> ]]
                    ELSE [f EXCEPT !.pc = "search",
                                   !.filters = _build_filters(r.context, r.mode)]]
    /\ _detector' = "langdetect"
    /\ UNCHANGED << pc, req, detected_lang, search_query, safety_result, filters,
                    semantic_results, sources, system_prompt, augmented_query,
                    llm_result, response, raised, http, out, calls, semantic_returned,
                    keyword_returned, passed, store, now, arg, ret >>

\* the semantic search of an invocation returns
Conc_Search(i) ==
    /\ frames[i].pc = "search"
    /\ \E sim \in ConcSims :
       \E r \in Search(store, sim, FiltersRead(i), VECTOR_SEARCH_LIMIT) :
          LET f == [frames[i] EXCEPT !.semantic_returned = r, !.semantic_results = r]
          IN  frames' = [frames EXCEPT ![i] =
                 IF NeedsFallback(r) THEN [f EXCEPT !.pc = "keyword"]
                 ELSE Selected(f, r)]
    /\ UNCHANGED << pc, req, detected_lang, search_query, safety_result, filters,
                    semantic_results, sources, system_prompt, augmented_query,
                    llm_result, response, raised, http, out, calls, semantic_returned,
                    keyword_returned, audit, passed, _detector, store, now, arg, ret >>

\* the keyword search of an invocation returns
Conc_Keyword(i) ==
    /\ frames[i].pc = "keyword"
    /\ \E trgm \in ConcTrgms :
       \E k \in KeywordSearch(store, trgm, KEYWORD_LIMIT) :
          frames' = [frames EXCEPT ![i] =
             Selected([frames[i] EXCEPT !.keyword_returned = k],
                      Merge(frames[i].semantic_results, k))]
    /\ UNCHANGED << pc, req, detected_lang, search_query, safety_result, filters,
                    semantic_results, sources, system_prompt, augmented_query,
                    llm_result, response, raised, http, out, calls, semantic_returned,
                    keyword_returned, audit, passed, _detector, store, now, arg, ret >>

\* the generation of an invocation returns; steps 8 and 9
Conc_Generate(i) ==
    /\ frames[i].pc = "generate"
    /\ \E content \in ConcCompletions :
          LET f == frames[i]
              output_check == CheckOutput(content)
          IN  /\ audit' \in (IF output_check.flagged
                             THEN LogFlagged(audit, content, Len(content),
                                             output_check.reason, TRUE, now)
                             ELSE {audit})
              /\ frames' = [frames EXCEPT ![i] =
                    [f EXCEPT !.pc = "returned",
                              !.llm_result =
                                 [ content |-> content,
                                   model |-> classify_query(f.augmented_query, f.req.mode) ],
                              !.response =
                                 [ answer |-> IF output_check.flagged
                                              THEN output_check.filtered_response
                                              ELSE content,
                                   sources |-> [k \in 1..Len(f.sources) |->
                                                   ResponseSource(f.sources[k])],
                                   language_detected |-> f.detected_lang,
                                   language_response |-> f.detected_lang,
                                   mode |-> f.req.mode,
                                   model_used |-> classify_query(f.augmented_query,
                                                                 f.req.mode),
                                   related_content |-> <<>> ]]]
    /\ UNCHANGED << pc, req, detected_lang, search_query, safety_result, filters,
                    semantic_results, sources, system_prompt, augmented_query,
                    llm_result, response, raised, http, out, calls, semantic_returned,
                    keyword_returned, passed, _detector, store, now, arg, ret >>

NextConcurrent ==
    \E i \in Invocations :
       Conc_Start(i) \/ Conc_Search(i) \/ Conc_Keyword(i) \/ Conc_Generate(i)

SpecConcurrent == Init /\ [][NextConcurrent]_vars

----------------------------------------------------------------------------

----------------------------------------------------------------------------
Next ==
    \/ Ask_Receive \/ Ask_Reject \/ Ask_InitRaises
    \/ PQ_Start \/ PQ_Search \/ PQ_Keyword \/ PQ_Select \/ PQ_Generate
    \/ PQ_PostProcess \/ PQ_Raises \/ Ask_Return \/ Ask_HTTPException
    \/ PQS_Start \/ PQS_Search \/ PQS_Keyword \/ PQS_Select \/ PQS_OpenStream
    \/ PQS_Token \/ PQS_StreamEnd \/ PQS_Raises \/ ES_Done \/ ES_Error

Spec == Init /\ [][Next]_vars

\* the two pipelines up to the point where generation is called
NextRetrieval ==
    \/ Ask_Receive \/ Ask_Reject
    \/ PQ_Start \/ PQ_Search \/ PQ_Keyword \/ PQ_Select
    \/ PQS_Start \/ PQS_Search \/ PQS_Keyword \/ PQS_Select

SpecRetrieval == Init /\ [][NextRetrieval]_vars

\* the same program with a consumer that may go away while it streams
NextCancel == Next \/ ES_Cancel

SpecCancel == Init /\ [][NextCancel]_vars

TypeOK == pc \in {"idle", "pq_start", "pq_search", "pq_keyword", "pq_select",
                  "pq_generate", "pq_post", "pq_returned", "pq_raised",
                  "pqs_start", "pqs_search", "pqs_keyword", "pqs_select",
                  "pqs_generate", "pqs_streaming", "pqs_exhausted", "pqs_raised",
                  "done", "rejected", "failed", "cancelled"}

----------------------------------------------------------------------------
\* Properties.

Started == pc \notin {"idle", "rejected", "failed", "pq_start", "pqs_start"}

CallsOf(ops) == {i \in 1..Len(calls) : calls[i].op \in ops}

SomeCallFailed == \E i \in 1..Len(calls) : ~calls[i].ok

SortedDesc(rs) ==
    \A i \in 1..(Len(rs) - 1) : rs[i].similarity_score >= rs[i + 1].similarity_score

\* C1: a query the pre-query check blocks never reaches the semantic search,
\* the keyword search or generation, on either path; process_query returns
\* the substitute text with no sources, model_used "safety_filter" and the
\* measured time, and the stream carries the substitute text alone before it
\* completes.
C1_BlockedShortCircuits ==
    (Started /\ safety_result.blocked) =>
        /\ CallsOf({"search", "keyword_search", "generate", "generate_stream"}) = {}
        /\ safety_result.safe_response
              \in {SAFE_RESPONSES.genocide_denial, SAFE_RESPONSES.violence_promotion,
                   TOO_LONG_RESPONSE}
        /\ ~req.stream =>
              /\ pc \in {"pq_returned", "done"}
              /\ response.answer = safety_result.safe_response
              /\ response.sources = <<>>
              /\ response.model_used = "safety_filter"
              /\ response.processing_time_ms = now
              /\ pc = "done" => http = [status |-> 200, body |-> response]
        /\ req.stream =>
              \/ pc = "pqs_exhausted" /\ out = << [data |-> safety_result.safe_response] >>
              \/ pc = "done" /\ out = << [data |-> safety_result.safe_response], DONE >>

C1_Witness ==
    /\ pc = "done"
    /\ ~req.stream
    /\ safety_result.blocked
    /\ safety_result.reason = "genocide_denial"
    /\ http.status = 200
    /\ http.body.model_used = "safety_filter"

SignalIn(text) ==
    \E sig \in denial_signals \cup violence_signals : Contains(LowerText(text), sig)

\* C2: on both delivery paths, generated text that holds a denial or
\* violence signal is never delivered; the safe text is delivered instead.
C2_FlaggedOutputNeverDelivered ==
    /\ (pc = "done" /\ ~req.stream /\ http.status = 200) =>
          /\ ~SignalIn(http.body.answer)
          /\ (~safety_result.blocked /\ SignalIn(llm_result.content)) =>
                http.body.answer \in {SAFE_RESPONSES.genocide_denial,
                                      SAFE_RESPONSES.violence_promotion}
    /\ (pc # "idle" /\ req.stream) =>
          ~SignalIn(Flatten([i \in 1..Len(out) |-> out[i].data]))

CeilingOf(mode) ==
    CASE mode = "kid_friendly" -> 1 [] mode = "standard" -> 2
      [] mode = "personal_voices" -> 3

TierRank(t) ==
    CASE t = "standard" -> 1 [] t = "sensitive" -> 2 [] t = "highly_sensitive" -> 3

\* C3: every chunk in the result list, the selected sources or the response
\* has a tier no higher than the ceiling of the request's mode, whether the
\* semantic search or the keyword fallback found it.
C3_ChunksWithinCeiling ==
    pc # "idle" =>
        /\ \A i \in 1..Len(semantic_results) :
              TierRank(semantic_results[i].sensitivity) <= CeilingOf(req.mode)
        /\ \A i \in 1..Len(sources) :
              TierRank(sources[i].sensitivity) <= CeilingOf(req.mode)
        /\ (pc = "done" /\ ~req.stream /\ http.status = 200) =>
              \A i \in 1..Len(http.body.sources) :
                 TierRank(http.body.sources[i].sensitivity) <= CeilingOf(req.mode)

\* C4: once the semantic search, the keyword search or the generation call
\* has failed, process_query makes no further call and returns no response,
\* and the route answers with the one generic failure.
C4_FailurePropagates ==
    (pc # "idle" /\ ~req.stream /\ SomeCallFailed) =>
        /\ pc \in {"pq_raised", "done"}
        /\ ~calls[Len(calls)].ok
        /\ response = NoValue
        /\ out = <<>>
        /\ pc = "done" =>
              http = [ status |-> 500,
                       detail |-> "An error occurred processing your question. Please try again." ]

C4_Witness ==
    /\ pc = "done"
    /\ ~req.stream
    /\ calls[Len(calls)] = [op |-> "generate", ok |-> FALSE]
    /\ semantic_results # <<>>
    /\ http.status = 500

NonEmpty(d) == d # <<>>

\* C5: a streaming response is the fragments in generation order followed by
\* exactly one terminal marker, [DONE] after a normal end and [ERROR] after a
\* failure; nothing follows the marker and no exception leaves the stream.
C5_StreamShape ==
    (Started /\ req.stream) =>
        LET body == IF pc = "done" THEN SubSeq(out, 1, Len(out) - 1) ELSE out
            generated ==
                IF safety_result.blocked THEN << safety_result.safe_response >>
                ELSE IF llm_result = NoValue THEN <<>>
                ELSE SelectSeq(llm_result.deltas, NonEmpty)
        IN  /\ body = [i \in 1..Len(generated) |-> [data |-> generated[i]]]
            /\ \A i \in 1..Len(body) : body[i] \notin {DONE, ERROR}
            /\ http = NoValue
            /\ pc = "done" =>
                  /\ Len(out) >= 1
                  /\ out[Len(out)] = IF SomeCallFailed THEN ERROR ELSE DONE
                  /\ raised = None

C5_Witness ==
    /\ pc = "done"
    /\ req.stream
    /\ Len(out) = 2
    /\ out[1] = [data |-> <<"Rwanda">>]
    /\ out[2] = ERROR

FallbackTrigger ==
    \/ semantic_returned = <<>>
    \/ semantic_returned[1].similarity_score < 50

SearchReturned == \E i \in 1..Len(calls) : calls[i] = [op |-> "search", ok |-> TRUE]

\* C6: in a non-blocked invocation the keyword search is invoked once when
\* the semantic search returned nothing or a top score below 0.5, never
\* otherwise, and only after the semantic search has returned.
C6_KeywordExactlyWhenTriggered ==
    /\ Cardinality(CallsOf({"keyword_search"})) <= 1
    /\ \A i \in CallsOf({"keyword_search"}) :
          \E j \in 1..(i - 1) : calls[j] = [op |-> "search", ok |-> TRUE]
    /\ (SearchReturned /\ pc \notin {"pq_keyword", "pqs_keyword"}) =>
          Cardinality(CallsOf({"keyword_search"})) = IF FallbackTrigger THEN 1 ELSE 0
    /\ pc \in {"pq_keyword", "pqs_keyword"} => FallbackTrigger

C6_Witness ==
    /\ pc = "done"
    /\ Cardinality(CallsOf({"keyword_search"})) = 1
    /\ semantic_returned # <<>>
    /\ semantic_returned[1].similarity_score = 40

KeywordReturned ==
    \E i \in 1..Len(calls) : calls[i] = [op |-> "keyword_search", ok |-> TRUE]

SemanticIds == {semantic_returned[i].chunk_id : i \in 1..Len(semantic_returned)}

Fresh(kr) == kr.chunk_id \notin SemanticIds

\* C7: after the keyword fallback the result list is the semantic results in
\* their order, followed by the keyword results whose chunk is not a semantic
\* one, in keyword order; no chunk identifier occurs twice.
C7_MergeKeepsSemanticFirst ==
    KeywordReturned =>
        /\ Len(semantic_results) >= Len(semantic_returned)
        /\ SubSeq(semantic_results, 1, Len(semantic_returned)) = semantic_returned
        /\ SubSeq(semantic_results, Len(semantic_returned) + 1, Len(semantic_results))
              = SelectSeq(keyword_returned, Fresh)
        /\ \A i, j \in 1..Len(semantic_results) :
              i # j => semantic_results[i].chunk_id # semantic_results[j].chunk_id

C7_Witness ==
    /\ KeywordReturned
    /\ Len(semantic_returned) = 1
    /\ Len(keyword_returned) = 2
    /\ keyword_returned[1].chunk_id = semantic_returned[1].chunk_id
    /\ Len(semantic_results) = 2
    /\ semantic_results[2] = keyword_returned[2]

Applied(fn) == arg # NoValue /\ arg.fn = fn

\* C8: the semantic search returns only results at or above the floor 0.3,
\* in descending similarity, at most `limit` (20 when none is given): the
\* best `limit` rows that pass the filters, less those below the floor.
C8_SearchFloorOrderCap ==
    Applied("search") =>
        LET lim == IF arg.limit = 0 THEN 20 ELSE arg.limit
            passing == {row \in store : Where(row, arg.filters)}
            eligible == {row \in passing : arg.sim[row.chunk_id] >= 30}
        IN  /\ \A i \in 1..Len(ret) : ret[i].similarity_score >= 30
            /\ SortedDesc(ret)
            /\ Len(ret) <= lim
            /\ Len(ret) = Min(lim, Cardinality(eligible))
            /\ \A i \in 1..Len(ret) :
                  \E row \in eligible :
                     /\ row.chunk_id = ret[i].chunk_id
                     /\ ret[i].similarity_score = arg.sim[row.chunk_id]
            /\ \A row \in passing :
                  (\A i \in 1..Len(ret) : ret[i].chunk_id # row.chunk_id) =>
                     \/ arg.sim[row.chunk_id] < 30
                     \/ /\ Len(ret) = lim
                        /\ arg.sim[row.chunk_id] <= ret[lim].similarity_score

C8_Witness ==
    /\ Applied("search")
    /\ arg.limit = 2
    /\ Cardinality({row \in store : Where(row, arg.filters)}) = 3
    /\ arg.sim = [c \in ChunkIds |-> CASE c = "c1" -> 30 [] c = "c2" -> 20 [] c = "c3" -> 20]
    /\ Len(ret) = 1
    /\ ret[1].similarity_score = 30

\* C9: source selection returns at most `limit` results (8 when none is
\* given) and never two results of the same source.
C9_SelectBoundedAndDistinct ==
    Applied("_select_sources") =>
        LET lim == IF arg.limit = 0 THEN 8 ELSE arg.limit
        IN  /\ Len(ret) <= lim
            /\ \A i, j \in 1..Len(ret) : i # j => ret[i].source_id # ret[j].source_id

C9_Witness ==
    /\ Applied("_select_sources")
    /\ arg.limit = 2
    /\ Len(arg.results) = 3
    /\ arg.results[1].source_id = arg.results[3].source_id
    /\ arg.results[1].source_id # arg.results[2].source_id
    /\ Len(ret) = 2

\* C10: source selection returns min(limit, number of distinct sources)
\* results: the first chunk of each of the first distinct sources, in input
\* order; from an input in descending score order the output is in
\* descending score order and holds the best chunk of each selected source.
C10_SelectFirstOfEachSource ==
    Applied("_select_sources") =>
        LET lim == IF arg.limit = 0 THEN 8 ELSE arg.limit
            rs == arg.results
            first == {i \in 1..Len(rs) : \A j \in 1..(i - 1) : rs[j].source_id # rs[i].source_id}
            Kth(k) == CHOOSE x \in first : Cardinality({y \in first : y < x}) = k - 1
        IN  /\ Len(ret) = Min(lim, Cardinality(first))
            /\ \A k \in 1..Len(ret) : ret[k] = rs[Kth(k)]
            /\ SortedDesc(rs) =>
                  /\ SortedDesc(ret)
                  /\ \A k \in 1..Len(ret) : \A i \in 1..Len(rs) :
                        rs[i].source_id = ret[k].source_id =>
                           rs[i].similarity_score <= ret[k].similarity_score

C10_Witness ==
    /\ Applied("_select_sources")
    /\ arg.limit = 0
    /\ Len(arg.results) = 3
    /\ [i \in 1..3 |-> arg.results[i].similarity_score] = <<81, 76, 40>>
    /\ [i \in 1..3 |-> arg.results[i].source_id] = <<"s1", "s1", "s2">>
    /\ [i \in 1..Len(ret) |-> ret[i].similarity_score] = <<81, 40>>


\* route(query, mode) as the contract states it: the mode first, then the
\* signal set, then the word count
RouteTier(text, mode) ==
    IF mode = "personal_voices" THEN "mixtral"
    ELSE IF \E sig \in HEAVY_MODEL_SIGNALS : Contains(LowerText(text), sig) THEN "mixtral"
    ELSE IF Len(text) > 40 THEN "mixtral"
    ELSE "mistral"

\* C11: the router is a function of (query text, mode): personal_voices is
\* heavy whatever the text; otherwise a text holding a signal is heavy;
\* otherwise more than 40 words is heavy (exactly 40 is not); otherwise fast.
C11_RouterOrder ==
    Applied("classify_query") =>
        /\ ret = RouteTier(arg.query, arg.mode)
        /\ ret \in {"mistral", "mixtral"}
        /\ arg.mode = "personal_voices" => ret = "mixtral"

C11_Witness ==
    /\ Applied("classify_query")
    /\ arg.mode = "kid_friendly"
    /\ Len(arg.query) = 40
    /\ ~(\E sig \in HEAVY_MODEL_SIGNALS : Contains(LowerText(arg.query), sig))
    /\ ret = "mistral"

\* C12: for every invocation that is not blocked, the model generation runs
\* on, and the model_used the response reports, is route(query, mode) of the
\* user's query text.
C12_ModelUsedIsRouteOfQuery ==
    /\ (pc \in {"pq_post", "pqs_streaming"}) =>
          llm_result.model = RouteTier(req.query.text, req.mode)
    /\ (pc = "done" /\ ~req.stream /\ http.status = 200 /\ ~safety_result.blocked) =>
          http.body.model_used = RouteTier(req.query.text, req.mode)


ToneOf(mode) ==
    CASE mode = "standard" -> "TONE:standard"
      [] mode = "personal_voices" -> "TONE:personal_voices"
      [] mode = "kid_friendly" -> "TONE:kid_friendly"
      [] OTHER -> "TONE:standard"

LocationBlocks == {"LOCATION:memorial", "LOCATION:museum", "LOCATION:route"}

LanguageBlocks == {"LANGUAGE:en", "LANGUAGE:fr", "LANGUAGE:rw"}

\* C13: for every mode (an unknown one gets the standard tone), context,
\* source list and language, the prompt is identity, tone, safety rules, then
\* at most one location override, the language instruction and at most one
\* sensitivity note, in that order, every block non-empty; the safety rules
\* are there exactly once, right after the tone and before the location.
C13_PromptLayers ==
    Applied("build") =>
        /\ Len(ret) \in 4..6
        /\ \A i \in 1..Len(ret) : ret[i] # ""
        /\ ret[1] = "BASE_IDENTITY"
        /\ ret[2] = ToneOf(arg.mode)
        /\ ret[3] = "SAFETY_RULES"
        /\ Cardinality({i \in 1..Len(ret) : ret[i] = "SAFETY_RULES"}) = 1
        /\ \E loc \in {<<>>} \cup {<< b >> : b \in LocationBlocks},
              lang \in LanguageBlocks,
              note \in {<<>>, << "NOTE:highly_sensitive" >>} :
              SubSeq(ret, 4, Len(ret)) = loc \o << lang >> \o note

C13_Witness ==
    /\ Applied("build")
    /\ arg.mode = "other"
    /\ arg.context.museum_id = "m1"
    /\ arg.language = "fr"
    /\ ret = << "BASE_IDENTITY", "TONE:standard", "SAFETY_RULES", "LOCATION:museum",
                "LANGUAGE:fr", "NOTE:highly_sensitive" >>


Matches(text, patterns) == \E p \in patterns : Contains(LowerText(text), p)

\* C14: check_query decides in a fixed order: longer than 2000 characters is
\* blocked as query_too_long whatever the text holds (exactly 2000 is not too
\* long); otherwise the denial group, then the violence group, and the first
\* that matches gives the reason and the substitute text; otherwise the query
\* is not blocked and carries no reason and no substitute.
C14_CheckQueryOrder ==
    Applied("check_query") =>
        LET q == arg.query IN
        IF q.len > 2000
        THEN ret = [ blocked |-> TRUE, reason |-> "query_too_long",
                     safe_response |-> <<"Please keep your question shorter.">> ]
        ELSE IF Matches(q.text, GENOCIDE_DENIAL_PATTERNS)
        THEN ret = [ blocked |-> TRUE, reason |-> "genocide_denial",
                     safe_response |-> SAFE_RESPONSES.genocide_denial ]
        ELSE IF Matches(q.text, VIOLENCE_PROMOTION_PATTERNS)
        THEN ret = [ blocked |-> TRUE, reason |-> "violence_promotion",
                     safe_response |-> SAFE_RESPONSES.violence_promotion ]
        ELSE ret = [ blocked |-> FALSE, reason |-> "None", safe_response |-> <<"None">> ]

C14_Witness ==
    /\ Applied("check_query")
    /\ arg.query.len = 2000
    /\ arg.query.text = <<"ethnic", "cleansing", "Double", "genocide">>
    /\ ret.reason = "genocide_denial"
    /\ ret.safe_response = SAFE_RESPONSES.genocide_denial

IsPrefix(s, t) == Len(s) <= Len(t) /\ SubSeq(t, 1, Len(s)) = s

\* C15: every query check_query blocks and every output check_output flags
\* leaves exactly one new entry at the end of the audit log, with a
\* timestamp, the decision kind, the reason and the truncated content; the
\* entries that were in the log stay as they were.
C15_EveryDecisionLogged ==
    /\ (Applied("check_query") \/ Applied("check_output")) => IsPrefix(arg.log, audit)
    /\ (Applied("check_query") /\ ret.blocked) =>
          /\ Len(audit) = Len(arg.log) + 1
          /\ audit[Len(audit)] =
                [ timestamp |-> now, type |-> "query_blocked", reason |-> ret.reason,
                  content_preview |-> [ text |-> arg.query.text,
                                        len |-> Min(arg.query.len, 500) ] ]
    /\ (Applied("check_output") /\ ret.flagged) =>
          /\ Len(audit) = Len(arg.log) + 1
          /\ audit[Len(audit)] =
                [ timestamp |-> now, type |-> "output_flagged", reason |-> ret.reason,
                  content_preview |-> [ text |-> arg.response,
                                        len |-> Min(arg.len, 500) ] ]


\* the decision of the request was due an audit entry and none was written
AuditWriteFailed ==
    /\ Started
    /\ audit = <<>>
    /\ \/ safety_result.blocked /\ safety_result.reason # "query_too_long"
       \/ /\ ~req.stream
          /\ ~safety_result.blocked
          /\ pc \in {"pq_returned", "done"}
          /\ response # NoValue
          /\ SignalIn(llm_result.content)

\* C16: a failure of the audit log, in writing the file or in setting up its
\* directory, never fails the request and never changes the decision: the
\* substitute text is returned as it is with working logging.
C16_LogFailureHarmless ==
    /\ raised = "mkdir" => (http = NoValue \/ http.status = 200)
    /\ (AuditWriteFailed /\ ~req.stream /\ pc = "done") =>
          /\ http.status = 200
          /\ http.body.answer \in {SAFE_RESPONSES.genocide_denial,
                                   SAFE_RESPONSES.violence_promotion}
          /\ safety_result.blocked =>
                /\ http.body.answer = safety_result.safe_response
                /\ http.body.model_used = "safety_filter"
    /\ (AuditWriteFailed /\ req.stream /\ pc = "done") =>
          out = << [data |-> safety_result.safe_response], DONE >>

ModeRank(mode) ==
    CASE mode = "kid_friendly" -> 1 [] mode = "standard" -> 2
      [] mode = "personal_voices" -> 3

\* C18: the tiers allowed for a mode are those at or below its ceiling in
\* standard < sensitive < highly_sensitive, and they grow with the mode:
\* kid_friendly within standard within personal_voices.
C18_CeilingMonotonic ==
    (Applied("get_sensitivity_for_mode") /\ arg.mode \in Modes) =>
        /\ ret.allowed = {t \in Tiers : TierRank(t) <= TierRank(ret.ceiling)}
        /\ TierRank(ret.ceiling) = ModeRank(arg.mode)
        /\ \A m \in Modes :
              ModeRank(m) <= ModeRank(arg.mode) =>
                 Allowed(get_sensitivity_for_mode(m)) \subseteq ret.allowed
        /\ \A m \in Modes :
              ModeRank(m) >= ModeRank(arg.mode) =>
                 ret.allowed \subseteq Allowed(get_sensitivity_for_mode(m))
        /\ \A i \in 1..Len(ret.results) : ret.results[i].sensitivity \in ret.allowed

C18_Witness ==
    /\ Applied("get_sensitivity_for_mode")
    /\ arg.mode = "standard"
    /\ ret.allowed = {"standard", "sensitive"}
    /\ Len(ret.results) = 2
    /\ \E i \in 1..2 : ret.results[i].sensitivity = "sensitive"

\* the last chunk of a batch that was stored under an identifier
LastStored(c) ==
    LET done == {i \in 1..Len(arg.chunks) :
                    i \notin arg.failed /\ arg.chunks[i].chunk_id = c}
    IN  arg.chunks[CHOOSE i \in done : \A j \in done : j <= i]

StoredIds ==
    {arg.chunks[i].chunk_id : i \in (1..Len(arg.chunks)) \ arg.failed}

\* C19: the store never holds two rows of one chunk identifier; storing a
\* chunk whose identifier is there replaces that row's text and vector and
\* adds no row, and storing a new identifier adds exactly one row.
C19_UpsertKeepsOneRow ==
    /\ \A r1, r2 \in store : r1.chunk_id = r2.chunk_id => r1 = r2
    /\ Applied("store_chunks") =>
          /\ \A c \in StoredIds :
                \E row \in store :
                   /\ row.chunk_id = c
                   /\ row.text = LastStored(c).text
                   /\ row.embedding = << "passage:" >> \o LastStored(c).text
          /\ {row.chunk_id : row \in store}
                = {row.chunk_id : row \in arg.before} \cup StoredIds
          /\ Cardinality(store)
                = Cardinality(arg.before)
                  + Cardinality(StoredIds \ {row.chunk_id : row \in arg.before})

C19_Witness ==
    /\ Applied("store_chunks")
    /\ Len(arg.chunks) = 1
    /\ arg.failed = {}
    /\ arg.chunks[1].chunk_id = "c1"
    /\ \E row \in arg.before : row.chunk_id = "c1" /\ row.text # arg.chunks[1].text
    /\ \E row \in store : row.chunk_id = "c1" /\ row.text = arg.chunks[1].text
    /\ Cardinality(store) = Cardinality(arg.before)
    /\ Cardinality(store) = 3

StageRank(op) ==
    CASE op = "detect" -> 1
      [] op = "translate_to_english" -> 2
      [] op = "check_query" -> 3
      [] op = "search" -> 4
      [] op = "keyword_search" -> 5
      [] op = "_select_sources" -> 6
      [] op = "build" -> 7
      [] op \in {"generate", "generate_stream"} -> 8
      [] op = "check_output" -> 9

LastOp == calls[Len(calls)].op

\* C20: within an invocation the stages run one after the other in the order
\* language, pre-query check, semantic search, keyword fallback, selection,
\* prompt assembly, generation, post-generation check: each stage starts
\* only when the one before has returned, retrieval is over before the
\* prompt is assembled and the prompt is assembled before generation starts
\* (a stream that fails while it is read is the generation stage still).
C20_StagesInOrder ==
    Started =>
        /\ \A i \in 1..(Len(calls) - 1) :
              /\ \/ StageRank(calls[i].op) < StageRank(calls[i + 1].op)
                 \/ /\ calls[i].op = "generate_stream"
                    /\ calls[i + 1] = [op |-> "generate_stream", ok |-> FALSE]
              /\ calls[i].ok
        /\ pc \in {"pq_search", "pqs_search"} => LastOp = "check_query"
        /\ pc \in {"pq_keyword", "pqs_keyword"} => LastOp = "search"
        /\ pc \in {"pq_select", "pqs_select"} => LastOp \in {"search", "keyword_search"}
        /\ pc \in {"pq_generate", "pqs_generate"} => LastOp = "build"
        /\ pc = "pq_post" => LastOp = "generate"
        /\ pc = "pqs_streaming" => LastOp = "generate_stream"
        /\ CallsOf({"build"}) # {} =>
              /\ CallsOf({"search"}) # {}
              /\ sources = _select_sources(semantic_results, 8)
              /\ system_prompt # <<>>
        /\ CallsOf({"generate", "generate_stream"}) # {} =>
              /\ CallsOf({"build"}) # {}
              /\ augmented_query # NoValue
              /\ augmented_query.question = req.query.text

C20_Witness ==
    /\ pc = "done"
    /\ ~req.stream
    /\ [i \in 1..Len(calls) |-> calls[i].op] =
          << "detect", "translate_to_english", "check_query", "search",
             "keyword_search", "_select_sources", "build", "generate", "check_output" >>
    /\ http.status = 200


\* the word occurs in the page, in either letter case
PageMentions(page, lower, upper) ==
    \E i \in 1..Len(page) : page[i] \in {lower, upper}

\* the location framing the context calls for, by precedence
LocationFor(context) ==
    IF context.museum_id # NoId THEN "LOCATION:museum"
    ELSE IF context.route_id # NoId THEN "LOCATION:route"
    ELSE IF PageMentions(context.current_page, "memorial", "Memorial")
    THEN "LOCATION:memorial"
    ELSE IF PageMentions(context.current_page, "museum", "Museum")
    THEN "LOCATION:museum"
    ELSE IF PageMentions(context.current_page, "route", "Route")
    THEN "LOCATION:route"
    ELSE None

\* C25: the location override follows a fixed precedence: a museum id gives
\* museum framing, otherwise a route id gives route framing, otherwise the
\* current page is tested, ignoring case, for memorial, museum, route in that
\* order and the first test that matches wins, otherwise there is no location
\* block; a prompt never holds more than one location block.
C25_LocationPrecedence ==
    Applied("build") =>
        LET locs == {i \in 1..Len(ret) : ret[i] \in LocationBlocks}
        IN  /\ Cardinality(locs) <= 1
            /\ (LocationFor(arg.context) = None) => (locs = {})
            /\ (LocationFor(arg.context) # None) =>
                   (locs = {4} /\ ret[4] = LocationFor(arg.context))

C25_Witness ==
    /\ Applied("build")
    /\ arg.context.museum_id = NoId
    /\ arg.context.route_id = NoId
    /\ arg.context.current_page = <<"museum", "Memorial">>
    /\ ret[4] = "LOCATION:memorial"
    /\ Cardinality({i \in 1..Len(ret) : ret[i] \in LocationBlocks}) = 1

\* C26: the sensitivity note is the last block of the prompt exactly when
\* some selected source is highly_sensitive; with no sources, or only standard
\* and sensitive ones, the prompt ends with the language instruction.
C26_NoteIffHighlySensitive ==
    Applied("build") =>
        LET highly == \E i \in 1..Len(arg.sources) :
                         arg.sources[i].sensitivity = "highly_sensitive"
            last == ret[Len(ret)]
        IN  /\ (last = "NOTE:highly_sensitive") <=> highly
            /\ ~highly => last \in LanguageBlocks
            /\ Cardinality({i \in 1..Len(ret) : ret[i] = "NOTE:highly_sensitive"})
                 = IF highly THEN 1 ELSE 0

C26_Witness ==
    /\ Applied("build")
    /\ Len(arg.sources) = 2
    /\ arg.sources[1].sensitivity = "sensitive"
    /\ arg.sources[2].sensitivity = "highly_sensitive"
    /\ ret[Len(ret)] = "NOTE:highly_sensitive"
    /\ ret[Len(ret) - 1] \in LanguageBlocks


\* C28: delete_by_source(s) removes every chunk of source s and no other:
\* afterwards no row of source s remains, every row of another source is
\* there unchanged, no row appears, and the returned count is the number of
\* rows removed.
C28_DeleteBySourceFrame ==
    Applied("delete_by_source") =>
        /\ \A row \in store : row.source_id # arg.source_id
        /\ \A row \in arg.before : row.source_id # arg.source_id => row \in store
        /\ store \subseteq arg.before
        /\ ret = Cardinality(arg.before \ store)

C28_Witness ==
    /\ Applied("delete_by_source")
    /\ arg.source_id = "s1"
    /\ Cardinality({row \in arg.before : row.source_id = "s1"}) = 2
    /\ \E row \in arg.before : row.source_id = "s2"
    /\ ret = 2
    /\ store # {}

\* the columns an insertion on an existing identifier leaves alone
Metadata(row) ==
    << row.chunk_id, row.source_id, row.source_type, row.language, row.sensitivity,
       row.location_id, row.museum_id, row.route_id, row.tags, row.created_at >>

\* the same columns of the chunk handed to store_chunks (no creation time)
Supplied(chunk) ==
    << chunk.source_id, chunk.source_type, chunk.language, chunk.sensitivity,
       chunk.location_id, chunk.museum_id, chunk.route_id, chunk.tags >>

\* C29: storing a chunk whose identifier is already there changes only that
\* row's text, vector and update time; its source, type, language, tier,
\* location, museum, route and tags keep the values of the first insertion
\* whatever the new chunk supplies, and every other row is unchanged.
C29_ReinsertKeepsMetadata ==
    Applied("store_chunks") =>
        \A old \in arg.before :
            \E row \in store :
               /\ Metadata(row) = Metadata(old)
               /\ old.chunk_id \notin StoredIds => row = old
               /\ old.chunk_id \in StoredIds =>
                     /\ row.text = LastStored(old.chunk_id).text
                     /\ row.embedding = << "passage:" >> \o LastStored(old.chunk_id).text
                     /\ row.updated_at = now

C29_Witness ==
    /\ Applied("store_chunks")
    /\ arg.failed = {}
    /\ Len(arg.chunks) = 1
    /\ arg.chunks[1].chunk_id = "c1"
    /\ \E old \in arg.before, row \in store :
          /\ old.chunk_id = "c1" /\ row.chunk_id = "c1"
          /\ \A i \in 1..8 : Supplied(arg.chunks[1])[i] # Tail(Metadata(old))[i]
          /\ Metadata(row) = Metadata(old)
          /\ row.text = arg.chunks[1].text /\ row.text # old.text
          /\ row.updated_at > old.updated_at
    /\ \E row \in store : row.chunk_id = "c2" /\ row \in arg.before


\* C24: for every mode the orchestrator can be given, one outside the three
\* known modes included, the sensitivity ceiling placed in the retrieval
\* filters is the ceiling the safety gate defines for that mode.
C24_FilterCeilingIsGateCeiling ==
    Applied("_build_filters") => ret.sensitivity = get_sensitivity_for_mode(arg.mode)


\* the sources have been selected and the prompt and message built
Built == \E i \in 1..Len(calls) : calls[i].op = "build"

\* C23: when retrieval yields no source and the query is not blocked, the
\* pipeline goes on to generation: the prompt holds the identity, tone,
\* safety and language blocks (a location block when the context calls for
\* one) and no sensitivity note, the message tells the generator not to use
\* outside knowledge and to suggest exploring the platform, and no response is
\* produced without a generation call.
C23_NoSourcesStillGenerates ==
    (Built /\ sources = <<>>) =>
        /\ ~safety_result.blocked
        /\ Len(system_prompt) \in 4..5
        /\ system_prompt[1] = "BASE_IDENTITY"
        /\ system_prompt[2] = ToneOf(req.mode)
        /\ system_prompt[3] = "SAFETY_RULES"
        /\ system_prompt[Len(system_prompt)] \in LanguageBlocks
        /\ \A i \in 1..Len(system_prompt) : system_prompt[i] # "NOTE:highly_sensitive"
        /\ augmented_query.question = req.query.text
        /\ augmented_query.context_parts = <<>>
        /\ {"no_external_knowledge", "suggest_explore_platform"}
              \subseteq augmented_query.directives
        /\ pc \in {"pq_generate", "pqs_generate"} =>
              \/ ENABLED PQ_Generate
              \/ ENABLED PQS_OpenStream
        /\ (response # NoValue \/ out # <<>>) =>
              \E i \in 1..Len(calls) : calls[i].op \in {"generate", "generate_stream"}

C23_Witness ==
    /\ pc = "done"
    /\ ~req.stream
    /\ Built
    /\ sources = <<>>
    /\ http.status = 200
    /\ http.body.sources = <<>>
    /\ \E i \in 1..Len(calls) : calls[i] = Call("generate", TRUE)
    /\ augmented_query.template = "no_sources"


Called(op) == \E i \in 1..Len(calls) : calls[i].op = op

\* C30: the safety check and the message sent to generation use the query
\* text as the user sent it; the translated search text goes to the semantic
\* and keyword searches only and is never handed to the safety check; a
\* translation is made for Kinyarwanda only, and the response reports the
\* detected language in both language fields, not the language searched in.
C30_OriginalTextToSafetyAndGeneration ==
    /\ Called("check_query") =>
          /\ passed.check_query = req.query.text
          /\ search_query \in {req.query.text, req.query.en}
          /\ search_query # req.query.text =>
                (detected_lang = "rw" /\ passed.check_query # search_query)
    /\ Called("search") => passed.search = search_query
    /\ Called("keyword_search") => passed.keyword_search = search_query
    /\ Built => augmented_query.question = req.query.text
    /\ response # NoValue =>
          /\ response.language_detected = detected_lang
          /\ response.language_response = detected_lang

C30_Witness ==
    /\ pc = "done"
    /\ ~req.stream
    /\ req.query.text = <<"muraho", "amakuru">>
    /\ detected_lang = "rw"
    /\ search_query = <<"hello", "news">>
    /\ passed = [ check_query |-> <<"muraho", "amakuru">>, search |-> <<"hello", "news">>,
                  keyword_search |-> <<"hello", "news">> ]
    /\ http.status = 200
    /\ augmented_query.question = <<"muraho", "amakuru">>
    /\ http.body.language_detected = "rw"
    /\ http.body.language_response = "rw"


\* the positions of an invocation after the pre-query check and before the
\* generation call
PreGeneration ==
    { "pq_search", "pqs_search", "pq_keyword", "pqs_keyword", "pq_select",
      "pqs_select", "pq_generate", "pqs_generate" }

\* the steps of the non-streaming pipeline up to generation, as a state
\* predicate: every value is the one process_query computes from the request
\* and from what the collaborators returned.  The values are compared where
\* they are computed, up to the point where generation is called
BlockingSteps ==
    /\ Called("check_query") =>
          /\ detected_lang \in {"en", "fr", "rw"}
          /\ search_query \in (IF detected_lang = "rw"
                               THEN {req.query.en, req.query.text}
                               ELSE {req.query.text})
          /\ safety_result = CheckQuery(req.query)
          /\ safety_result.blocked <=> pc \notin PreGeneration /\ ~Called("search")
    /\ pc \in PreGeneration =>
          /\ filters = _build_filters(req.context, req.mode)
          /\ KeywordReturned => FallbackTrigger
    /\ (SearchReturned /\ pc \in {"pq_keyword", "pqs_keyword", "pq_select", "pqs_select"}) =>
          \E sim \in [ChunkIds -> SimScores] :
             semantic_returned \in Search(store, sim, filters, VECTOR_SEARCH_LIMIT)
    /\ (KeywordReturned /\ pc \in {"pq_select", "pqs_select"}) =>
          \E trgm \in [ChunkIds -> TrgmScores] :
             keyword_returned \in KeywordSearch(store, trgm, KEYWORD_LIMIT)
    /\ pc \in {"pq_select", "pqs_select", "pq_generate", "pqs_generate"} =>
          /\ semantic_results = IF KeywordReturned
                                THEN Merge(semantic_returned, keyword_returned)
                                ELSE semantic_returned
          /\ KeywordReturned <=> FallbackTrigger
    /\ pc \in {"pq_generate", "pqs_generate"} =>
          /\ sources = _select_sources(semantic_results, VECTOR_RERANK_LIMIT)
          /\ system_prompt = build(req.mode, req.context, sources, detected_lang)
          /\ augmented_query = _build_augmented_query(req.query, sources, detected_lang)

\* C27: for the same query, language, mode and context and the same
\* collaborator results, the streaming pipeline takes the steps of the
\* non-streaming one up to generation: the detected language and search text,
\* the pre-query decision, the filters, the searches with their limits, the
\* fallback decision and merge, the selected sources, the system prompt and
\* the augmented message are the same functions of the request and of what
\* the collaborators returned on both paths.
C27_StreamSameStepsAsBlocking ==
    req # NoValue => BlockingSteps

\* a streaming invocation about to call generation, after a fallback that
\* added rows, with two sources selected out of three results
C27_Witness ==
    /\ req # NoValue
    /\ req.stream
    /\ pc = "pqs_generate"
    /\ detected_lang = "rw"
    /\ search_query # req.query.text
    /\ KeywordReturned
    /\ Len(semantic_returned) < Len(semantic_results)
    /\ Len(semantic_results) = 3
    /\ Len(sources) = 2
    /\ sources[1].source_id # sources[2].source_id
    /\ Len(system_prompt) = 6
    /\ augmented_query.template = "retrieved_context"


\* C21: when the consumer cancels a streaming response after generation has
\* begun, no further fragment is produced, the generation stream and its
\* connection are released, and the retrieval work already done stays as it
\* was.
C21_CancelReleasesStream ==
    pc = "cancelled" =>
        /\ ~ENABLED PQS_Token
        /\ ~ENABLED ES_Done
        /\ llm_result.released
        /\ Built
        /\ sources = _select_sources(semantic_results, VECTOR_RERANK_LIMIT)


\* what an invocation computes when it runs alone: every local is the value
\* process_query gives it from the invocation's own request and from what
\* the collaborators returned to it
RunsAsAlone(f) ==
    LET blocked == f.safety_result.blocked
        own_filters == _build_filters(f.req.context, f.req.mode)
        triggered == f.semantic_returned = <<>>
                     \/ f.semantic_returned[1].similarity_score < FALLBACK_THRESHOLD
        results == IF triggered THEN Merge(f.semantic_returned, f.keyword_returned)
                   ELSE f.semantic_returned
        srcs == _select_sources(results, VECTOR_RERANK_LIMIT)
    IN  /\ f.detected_lang \in detect(f.req.query)
        /\ f.search_query \in (IF f.detected_lang = "rw"
                               THEN translate_to_english(f.req.query)
                               ELSE {f.req.query.text})
        /\ f.safety_result = CheckQuery(f.req.query)
        /\ blocked <=> f.filters = NoValue
        /\ blocked =>
              /\ f.pc = "returned"
              /\ f.response.answer = f.safety_result.safe_response
              /\ f.response.sources = <<>>
              /\ f.sources = <<>>
        /\ ~blocked =>
              /\ f.filters = own_filters
              /\ f.pc # "search" =>
                    \E sim \in ConcSims :
                       f.semantic_returned
                          \in Search(store, sim, own_filters, VECTOR_SEARCH_LIMIT)
              /\ f.pc = "keyword" => (triggered /\ f.semantic_results = f.semantic_returned)
              /\ f.pc \in {"generate", "returned"} =>
                    /\ f.semantic_results = results
                    /\ f.sources = srcs
                    /\ f.system_prompt
                          = build(f.req.mode, f.req.context, srcs, f.detected_lang)
                    /\ f.augmented_query
                          = _build_augmented_query(f.req.query, srcs, f.detected_lang)
              /\ f.pc = "returned" =>
                    /\ f.response.answer
                          = IF CheckOutput(f.llm_result.content).flagged
                            THEN CheckOutput(f.llm_result.content).filtered_response
                            ELSE f.llm_result.content
                    /\ f.response.sources
                          = [k \in 1..Len(srcs) |-> ResponseSource(srcs[k])]
                    /\ f.response.mode = f.req.mode
                    /\ f.response.language_detected = f.detected_lang

\* C22: concurrent invocations share no per-request state: under every
\* interleaving of their suspension points, the filters, result list,
\* selected sources, prompt and response of each invocation are what it
\* computes alone from its own query, mode and context and from the
\* collaborator results it received.
C22_InvocationsIndependent ==
    \A i \in Invocations : frames[i].pc # "idle" => RunsAsAlone(frames[i])

\* two interleaved invocations of different modes and contexts: one has
\* returned, the other is suspended in generation
C22_Witness ==
    /\ frames["a"].pc = "returned"
    /\ frames["b"].pc = "generate"
    /\ frames["a"].req.mode = "kid_friendly"
    /\ frames["b"].req.mode = "personal_voices"
    /\ frames["a"].req.context # frames["b"].req.context
    /\ frames["a"].filters # frames["b"].filters
    /\ Len(frames["a"].sources) = 1
    /\ frames["a"].sources[1].sensitivity = "standard"
    /\ Len(frames["b"].sources) = 2
    /\ frames["b"].sources[1].sensitivity = "highly_sensitive"
    /\ frames["a"].response.sources # <<>>
    /\ _detector = "langdetect"

====
